---------------------------- MODULE Spec2Model ----------------------------
(***************************************************************************)
(* A model of question_generation/generate_questions.py: the attribute     *)
(* index and the relation index of a scene, the depth-first template       *)
(* expander with its rejection sampling, and the list-question generators. *)
(*                                                                         *)
(* Python lists are sequences; list positions, object ids and node indices *)
(* are 0-based as in the source, so element i of a list s is s[i + 1].      *)
(* Python's None is the value None below.                                  *)
(***************************************************************************)
EXTENDS Integers, Sequences, FiniteSets, TLC

VARIABLES
    pc,             \* position of the routine being run
    scene_struct,   \* the scene: objects, relationships, cached _filter_options
    template,       \* the template handed to instantiate_templates_dfs
    max_instances,  \* its max_instances argument
    answer_counts,  \* the answer-count table of the template
    states,         \* the DFS stack
    final_states,   \* the accepted states, in order of acceptance
    outcome,        \* what the latest loop iteration did with the state it popped
    num_runs,       \* runs of instantiate_templates_dfs started in this window
    state,          \* the state the latest loop iteration popped
    degen,          \* what qeng.is_degenerate returned in the latest loop iteration: {} when not called
    call_args,      \* the arguments of a call of one of the other functions
    call_result,    \* what that call returned or raised
    session         \* the arguments and local variables of main

vars == <<pc, scene_struct, template, max_instances, answer_counts, states,
          final_states, outcome, num_runs, state, degen, call_args, call_result,
          session>>

-----------------------------------------------------------------------------
(* Bounds of the model.                                                    *)

\* objects in a scene drawn for the index and relation-index checks
MaxObjects == 2

-----------------------------------------------------------------------------
(* Values.                                                                 *)

None == "None"

\* the value of a variable a specification does not use
Unused == "unused"

\* metadata["types"], cut down to two values for each attribute
Types ==
    [Size     |-> <<"large", "small">>,
     Color    |-> <<"red", "gray">>,
     Material |-> <<"rubber", "metal">>,
     Shape    |-> <<"cube", "sphere">>,
     Relation |-> <<"left", "right">>]

Range(s) == {s[i] : i \in DOMAIN s}

\* element i (0-based) of list s
At(s, i) == s[i + 1]

\* the indices 0 .. len(s)-1 of list s
Idx(s) == 0 .. (Len(s) - 1)

Min(S) == CHOOSE x \in S : \A y \in S : x <= y

\* sorted(list(S)) for a set S of integers
RECURSIVE sorted(_)
sorted(S) == IF S = {} THEN <<>> ELSE <<Min(S)>> \o sorted(S \ {Min(S)})

\* an object of scene_struct["objects"]; x stands for obj["3d_coords"][0]
Object(z, c, m, s, x) == [size |-> z, color |-> c, material |-> m, shape |-> s, x |-> x]

AllObjects ==
    {Object(z, c, m, s, 0) : z \in Range(Types.Size), c \in Range(Types.Color),
                             m \in Range(Types.Material), s \in Range(Types.Shape)}

\* {} as a dict
EmptyDict == [k \in {} |-> {}]

\* a scene without a cached index ("_filter_options" not in scene_struct)
Scene(objects, relationships) ==
    [objects |-> objects, relationships |-> relationships,
     has_filter_options |-> FALSE, filter_options |-> EmptyDict]

-----------------------------------------------------------------------------
(* The attribute index: precompute_filter_options, find_filter_options.    *)

\* attr_keys = ["size", "color", "material", "shape"]
NumAttrs == 4

Pow2(j) == IF j = 0 THEN 1 ELSE IF j = 1 THEN 2 ELSE IF j = 2 THEN 4 ELSE IF j = 3 THEN 8 ELSE 16

\* a mask that forgets the last attribute: a slip in the mask computation
MaskBitNoShape(i, j) == IF j = NumAttrs - 1 THEN 0 ELSE (i \div Pow2(j)) % 2

\* mask.append((i // (2**j)) % 2)
MaskBit(i, j) == (i \div Pow2(j)) % 2

\* masks[i]
Mask(i) == <<MaskBit(i, 0), MaskBit(i, 1), MaskBit(i, 2), MaskBit(i, 3)>>

\* tuple(obj[k] for k in attr_keys)
ObjectKey(obj) == <<obj.size, obj.color, obj.material, obj.shape>>

\* the masked_key built from key and mask
MaskedKey(key, mask) ==
    <<IF mask[1] = 1 THEN key[1] ELSE None, IF mask[2] = 1 THEN key[2] ELSE None,
      IF mask[3] = 1 THEN key[3] ELSE None, IF mask[4] = 1 THEN key[4] ELSE None>>

\* attribute_map after the loop over masks[i..] for one object: object_idx
\* is added under every masked key of the object
AddMasks(attribute_map, object_idx, key, i) ==
    LET masked_keys == {MaskedKey(key, Mask(j)) : j \in i..(Pow2(NumAttrs) - 1)}
    IN  [k \in DOMAIN attribute_map \cup masked_keys |->
            (IF k \in DOMAIN attribute_map THEN attribute_map[k] ELSE {})
                \cup (IF k \in masked_keys THEN {object_idx} ELSE {})]

\* the loop over enumerate(scene_struct["objects"]) from object_idx on
RECURSIVE AddObjects(_, _, _)
AddObjects(attribute_map, objects, object_idx) ==
    IF object_idx = Len(objects) THEN attribute_map
    ELSE AddObjects(AddMasks(attribute_map, object_idx, ObjectKey(At(objects, object_idx)), 0),
                    objects, object_idx + 1)

\* the scene after precompute_filter_options(scene_struct, metadata)
precompute_filter_options(scene) ==
    [scene EXCEPT !.has_filter_options = TRUE,
                  !.filter_options = AddObjects(EmptyDict, scene.objects, 0)]

\* the scene after the "_filter_options" not in scene_struct test of the two lookups
WithFilterOptions(scene) ==
    IF scene.has_filter_options THEN scene ELSE precompute_filter_options(scene)

\* the attribute_map find_filter_options returns for the ids in object_idxs
find_filter_options(object_idxs, scene) ==
    LET fo == WithFilterOptions(scene).filter_options
    IN  [k \in DOMAIN fo |-> sorted(Range(object_idxs) \cap fo[k])]

-----------------------------------------------------------------------------
(* Scenes drawn for the checks of the two indices.                         *)

\* lists of at most n objects
RECURSIVE ObjectLists(_)
ObjectLists(n) ==
    IF n = 0 THEN {<<>>}
    ELSE LET shorter == ObjectLists(n - 1)
         IN  shorter \cup {Append(l, o) : l \in {s \in shorter : Len(s) = n - 1}, o \in AllObjects}

(* The call precompute_filter_options(scene_struct, metadata).             *)
IndexInit ==
    /\ pc = "index_start"
    /\ scene_struct \in {Scene(objs, EmptyDict) : objs \in ObjectLists(MaxObjects)}
    /\ template = Unused /\ max_instances = Unused /\ answer_counts = Unused
    /\ states = Unused /\ final_states = Unused /\ outcome = Unused /\ num_runs = Unused
    /\ state = Unused /\ degen = Unused /\ session = Unused
    /\ call_args = Unused /\ call_result = Unused

PrecomputeCall ==
    /\ pc = "index_start"
    /\ scene_struct' = precompute_filter_options(scene_struct)
    /\ pc' = "index_done"
    /\ UNCHANGED <<template, max_instances, answer_counts, states, final_states,
                   outcome, num_runs, state, degen, call_args, call_result, session>>

IndexNext == PrecomputeCall

SpecIndex == IndexInit /\ [][IndexNext]_vars

\* object obj agrees with key at every position that is not a wildcard
KeyMatches(obj, key) ==
    \A p \in 1..NumAttrs : key[p] = None \/ key[p] = ObjectKey(obj)[p]

-----------------------------------------------------------------------------
(* The relation index: find_relate_filter_options.                         *)

\* bounds of the trivial_frac values tried: trivial_frac = num / FracDen
FracDen == 4

\* int(round(a / b)) for a >= 0, b > 0: Python 3 rounds a tie to the even side
RoundHalfEven(a, b) ==
    LET q == a \div b
        r == a % b
    IN  IF 2 * r < b THEN q
        ELSE IF 2 * r > b THEN q + 1
        ELSE IF q % 2 = 0 THEN q ELSE q + 1

\* the subsets of S with exactly k elements
RECURSIVE KSubsets(_, _)
KSubsets(S, k) ==
    IF k = 0 THEN {{}}
    ELSE UNION {{T \cup {x} : x \in S \ T} : T \in KSubsets(S, k - 1)}

\* related & filtered for one relationship and one filter key of the index fo
RelateIntersection(object_idx, scene, fo, relationship, filters) ==
    Range(At(scene.relationships[relationship], object_idx)) \cap fo[filters]

\* the double loop without its first continue test
RelatePassesNotUnique(intersection, unique, include_zero) ==
    ~(~include_zero /\ Cardinality(intersection) = 0)

\* the two continue tests of the double loop
RelatePasses(intersection, unique, include_zero) ==
    /\ ~(unique /\ Cardinality(intersection) # 1)
    /\ ~(~include_zero /\ Cardinality(intersection) = 0)

\* trivial = intersection == filtered
RelateTrivial(intersection, filtered) == intersection = filtered

\* the keys of options (trivial = FALSE) or of trivial_options (trivial = TRUE)
\* after the double loop over the relationships and the index fo
RelateKeys(object_idx, scene, fo, unique, include_zero, trivial) ==
    {p \in (DOMAIN scene.relationships) \X (DOMAIN fo) :
        LET intersection == RelateIntersection(object_idx, scene, fo, p[1], p[2])
        IN  /\ RelatePasses(intersection, unique, include_zero)
            /\ RelateTrivial(intersection, fo[p[2]]) = trivial}

\* num_trivial for N nontrivial options and trivial_frac = num / den < 1
NumTrivial(N, num, den) == RoundHalfEven(N * num, den - num)

\* the key sets trivial_options[:num_trivial] can hold after random.shuffle
TrivialPrefixes(trivial_keys, num_trivial) ==
    IF num_trivial >= Cardinality(trivial_keys) THEN {trivial_keys}
    ELSE KSubsets(trivial_keys, num_trivial)

\* what a call returns: the error it raises, or the dict it returns
Raised(error) == [error |-> error, value |-> EmptyDict]
Returned(value) == [error |-> None, value |-> value]

\* the outcomes of find_relate_filter_options(object_idx, scene_struct, metadata,
\* unique, include_zero, trivial_frac = num / den)
find_relate_filter_options(object_idx, scene, unique, include_zero, num, den) ==
    LET fo == WithFilterOptions(scene).filter_options
        nontrivial == RelateKeys(object_idx, scene, fo, unique, include_zero, FALSE)
        trivial_keys == RelateKeys(object_idx, scene, fo, unique, include_zero, TRUE)
    IN  IF den - num = 0 THEN {Raised("ZeroDivisionError")}
        ELSE {Returned([p \in nontrivial \cup chosen |->
                            sorted(RelateIntersection(object_idx, scene, fo, p[1], p[2]))]) :
                 chosen \in TrivialPrefixes(trivial_keys,
                                NumTrivial(Cardinality(nontrivial), num, den))}

\* scene_struct["relationships"] of n objects placed from left to right
Positional(n) ==
    [left  |-> [i \in 1..n |-> [j \in 1..(i - 1) |-> j - 1]],
     right |-> [i \in 1..n |-> [j \in 1..(n - i) |-> i + j - 1]]]

\* the objects of the scenes drawn for the relation index
RelateObjects ==
    {Object("large", c, "rubber", s, 0) : c \in Range(Types.Color), s \in Range(Types.Shape)}

RECURSIVE RelateObjectLists(_)
RelateObjectLists(n) ==
    IF n = 0 THEN {<<>>}
    ELSE LET shorter == RelateObjectLists(n - 1)
         IN  shorter \cup {Append(l, o) : l \in {s \in shorter : Len(s) = n - 1}, o \in RelateObjects}

\* three objects alike: the anchor matches every key that its neighbours match
RelateSceneThree ==
    Scene(<<Object("large", "red", "rubber", "cube", 0),
            Object("large", "red", "rubber", "cube", 1),
            Object("large", "red", "rubber", "cube", 2)>>, Positional(3))

(* The call find_relate_filter_options(object_idx, scene_struct, metadata,  *)
(* unique, include_zero, trivial_frac).                                    *)
RelateInit ==
    /\ pc = "relate_start"
    /\ scene_struct \in {Scene(objs, Positional(Len(objs))) :
                            objs \in RelateObjectLists(MaxObjects) \ {<<>>}}
                        \cup {RelateSceneThree}
    /\ call_args \in {[object_idx |-> i, unique |-> u, include_zero |-> z, num |-> n] :
                         i \in Idx(scene_struct.objects), u \in BOOLEAN, z \in BOOLEAN,
                         n \in 0..FracDen}
    /\ call_result = Unused
    /\ template = Unused /\ max_instances = Unused /\ answer_counts = Unused
    /\ states = Unused /\ final_states = Unused /\ outcome = Unused /\ num_runs = Unused
    /\ state = Unused /\ degen = Unused /\ session = Unused

RelateCall ==
    /\ pc = "relate_start"
    /\ call_result' \in find_relate_filter_options(call_args.object_idx, scene_struct,
                            call_args.unique, call_args.include_zero, call_args.num, FracDen)
    /\ scene_struct' = WithFilterOptions(scene_struct)
    /\ pc' = "relate_done"
    /\ UNCHANGED <<template, max_instances, answer_counts, states, final_states,
                   outcome, num_runs, state, degen, call_args, session>>

RelateNext == RelateCall

SpecRelate == RelateInit /\ [][RelateNext]_vars

\* the objects of the scene that agree with filter key k
Matching(scene, k) == {i \in Idx(scene.objects) : KeyMatches(At(scene.objects, i), k)}

\* the (relationship, filter-key) pair p adds no selectivity for the anchor
TrivialPair(scene, object_idx, p) ==
    Matching(scene, p[2]) \subseteq Range(At(scene.relationships[p[1]], object_idx))

\* the pairs that pass the unique / include_zero flags of the call
PassingPairs(scene, args) ==
    {p \in (DOMAIN scene.relationships) \X (DOMAIN scene.filter_options) :
        LET n == Cardinality(Matching(scene, p[2])
                                \cap Range(At(scene.relationships[p[1]], args.object_idx)))
        IN  (args.unique => n = 1) /\ (~args.include_zero => n # 0)}

\* the returned mapping holds min(round(N*f/(1-f)), available) trivial entries
TrivialCountRight(scene, args, options) ==
    LET returned == DOMAIN options
        N == Cardinality({p \in returned : ~TrivialPair(scene, args.object_idx, p)})
        T == Cardinality({p \in returned : TrivialPair(scene, args.object_idx, p)})
        available == Cardinality({p \in PassingPairs(scene, args) :
                                     TrivialPair(scene, args.object_idx, p)})
        target == RoundHalfEven(N * args.num, FracDen - args.num)
    IN  T = IF target < available THEN target ELSE available

\* C8: for every trivial_frac in [0,1] and every anchor, find_relate_filter_options
\* returns a mapping whose number of trivial entries is round(N*f/(1-f)) clipped
\* to the number of trivial candidates that pass the flags, N being the number
\* of nontrivial entries returned.
C8_TrivialCount ==
    pc = "relate_done" =>
        /\ call_result.error = None
        /\ TrivialCountRight(scene_struct, call_args, call_result.value)

\* the same for trivial_frac < 1, the calls that return
C8_TrivialCountBelowOne ==
    (pc = "relate_done" /\ call_args.num < FracDen) =>
        /\ call_result.error = None
        /\ TrivialCountRight(scene_struct, call_args, call_result.value)

\* a call that returned some but not all of the trivial candidates
C8_Witness ==
    /\ pc = "relate_done"
    /\ call_result.error = None
    /\ \E p \in DOMAIN call_result.value : TrivialPair(scene_struct, call_args.object_idx, p)
    /\ \E p \in PassingPairs(scene_struct, call_args) :
           TrivialPair(scene_struct, call_args.object_idx, p) /\ p \notin DOMAIN call_result.value

-----------------------------------------------------------------------------
(* Templates, program nodes and the Program Evaluator.                     *)

\* a node of a template or of a program; has_side_inputs is "side_inputs" in node
Node(type, inputs, side_inputs) ==
    [type |-> type, inputs |-> inputs, side_inputs |-> side_inputs, has_side_inputs |-> TRUE]

PlainNode(type, inputs) ==
    [type |-> type, inputs |-> inputs, side_inputs |-> <<>>, has_side_inputs |-> FALSE]

\* new_node of node_shallow_copy(node)
node_shallow_copy(node) ==
    [type |-> node.type, inputs |-> node.inputs,
     side_inputs |-> IF node.has_side_inputs THEN node.side_inputs ELSE <<>>,
     has_side_inputs |-> node.has_side_inputs]

\* the outputs of the evaluator, each with the kind of value it is
ObjSetOut(ids) == [t |-> "objset", v |-> ids]
ObjOut(id) == [t |-> "obj", v |-> id]
IntOut(n) == [t |-> "int", v |-> n]
BoolOut(b) == [t |-> "bool", v |-> b]
StrOut(str) == [t |-> "str", v |-> str]
Invalid == [t |-> "invalid", v |-> "__INVALID__"]

\* Python's == on two outputs
OutEq(a, b) == a.t = b.t /\ a.v = b.v

\* obj[attribute]
AttrOf(obj, attribute) ==
    CASE attribute = "size" -> obj.size
      [] attribute = "color" -> obj.color
      [] attribute = "material" -> obj.material
      [] attribute = "shape" -> obj.shape

\* the attribute a filter_<attribute>, query_<attribute> or equal_<attribute> node is about
NodeAttr(type) ==
    CASE type \in {"filter_size", "query_size", "equal_size"} -> "size"
      [] type \in {"filter_color", "query_color", "equal_color"} -> "color"
      [] type \in {"filter_material", "query_material", "equal_material"} -> "material"
      [] type \in {"filter_shape", "query_shape", "equal_shape"} -> "shape"

FilterTypes == {"filter_size", "filter_color", "filter_material", "filter_shape"}
QueryTypes == {"query_size", "query_color", "query_material", "query_shape"}
EqualTypes == {"equal_size", "equal_color", "equal_material", "equal_shape"}

\* the ids of list ids whose attribute has the given value, in order
RECURSIVE FilterIds(_, _, _, _)
FilterIds(objects, ids, attribute, value) ==
    IF ids = <<>> THEN <<>>
    ELSE (IF AttrOf(At(objects, Head(ids)), attribute) = value THEN <<Head(ids)>> ELSE <<>>)
            \o FilterIds(objects, Tail(ids), attribute, value)

\* the output of one node, given the outputs of the nodes before it
NodeOutput(scene, node, outputs) ==
    LET in1 == At(outputs, node.inputs[1])
    IN  CASE node.type = "scene" -> ObjSetOut([i \in 1..Len(scene.objects) |-> i - 1])
          [] node.type \in FilterTypes ->
                ObjSetOut(FilterIds(scene.objects, in1.v, NodeAttr(node.type), node.side_inputs[1]))
          [] node.type = "unique" -> IF Len(in1.v) # 1 THEN Invalid ELSE ObjOut(in1.v[1])
          [] node.type = "count" -> IntOut(Len(in1.v))
          [] node.type = "exist" -> BoolOut(Len(in1.v) > 0)
          [] node.type = "relate" ->
                ObjSetOut(At(scene.relationships[node.side_inputs[1]], in1.v))
          [] node.type \in QueryTypes ->
                StrOut(AttrOf(At(scene.objects, in1.v), NodeAttr(node.type)))
          [] node.type \in EqualTypes -> BoolOut(in1.v = At(outputs, node.inputs[2]).v)

\* node_outputs once the nodes from position i on have run; the run stops at
\* the first node whose output is the invalid marker
RECURSIVE RunNodes(_, _, _, _)
RunNodes(scene, nodes, i, outputs) ==
    IF i = Len(nodes) THEN outputs
    ELSE LET out == NodeOutput(scene, At(nodes, i), outputs)
         IN  IF out.t = "invalid" THEN Append(outputs, out)
             ELSE RunNodes(scene, nodes, i + 1, Append(outputs, out))

\* qeng.answer_question(q, metadata, scene_struct, all_outputs=True)
answer_question(nodes, scene) == RunNodes(scene, nodes, 0, <<>>)

\* outputs[-1]
Last(s) == s[Len(s)]

-----------------------------------------------------------------------------
(* The checks instantiate_templates_dfs makes on a popped state.           *)

\* dict.get(key) of a dict of strings
Get(dict, key) == IF key \in DOMAIN dict THEN dict[key] ELSE None

\* the NEQ branch sets skip_state
NeqViolated(constraint, vals) ==
    LET v1 == Get(vals, constraint.params[1])
        v2 == Get(vals, constraint.params[2])
    IN  v1 # None /\ v2 # None /\ v1 # v2

\* the NULL branch sets skip_state
NullViolated(constraint, vals, param_name_to_type) ==
    LET p == constraint.params[1]
        v == Get(vals, p)
    IN  /\ v # None
        /\ \/ param_name_to_type[p] = "Shape" /\ v # "thing"
           \/ param_name_to_type[p] # "Shape" /\ v # ""

\* the OUT_NEQ branch sets skip_state
OutNeqViolated(constraint, input_map, outputs) ==
    LET i == constraint.params[1]
        j == constraint.params[2]
    IN  /\ i \in DOMAIN input_map
        /\ j \in DOMAIN input_map
        /\ OutEq(At(outputs, input_map[i]), At(outputs, input_map[j]))

\* one constraint sets skip_state
ConstraintViolated(constraint, st, param_name_to_type, outputs) ==
    CASE constraint.type = "NEQ" -> NeqViolated(constraint, st.vals)
      [] constraint.type = "NULL" -> NullViolated(constraint, st.vals, param_name_to_type)
      [] constraint.type = "OUT_NEQ" -> OutNeqViolated(constraint, st.input_map, outputs)
      [] OTHER -> FALSE

\* the constraint types the loop over template["constraints"] has a branch for
ConstraintTypes == {"NEQ", "NULL", "OUT_NEQ"}

\* the loop over template["constraints"] reaches its else branch, assert False:
\* a constraint of another type comes before the first one that sets skip_state
ConstraintAsserts(tmpl, st, outputs) ==
    \E c \in DOMAIN tmpl.constraints :
        /\ tmpl.constraints[c].type \notin ConstraintTypes
        /\ \A b \in 1..(c - 1) :
               ~ConstraintViolated(tmpl.constraints[b], st, tmpl.params, outputs)

\* the constraints left unchecked
skip_stateNever(tmpl, st, outputs) == FALSE

\* skip_state after the loop over template["constraints"]
skip_state(tmpl, st, outputs) ==
    \E c \in DOMAIN tmpl.constraints :
        ConstraintViolated(tmpl.constraints[c], st, tmpl.params, outputs)

\* the list s with x inserted before the first larger element
RECURSIVE Insert(_, _)
Insert(s, x) ==
    IF s = <<>> THEN <<x>>
    ELSE IF x <= Head(s) THEN <<x>> \o s ELSE <<Head(s)>> \o Insert(Tail(s), x)

\* the values of dict over the keys in keys, sorted ascending
RECURSIVE SortedValues(_, _)
SortedValues(dict, keys) ==
    IF keys = {} THEN <<>>
    ELSE LET k == CHOOSE x \in keys : TRUE
         IN  Insert(SortedValues(dict, keys \ {k}), dict[k])

\* answer_counts_sorted = sorted(answer_counts.values())
answer_counts_sorted(counts) == SortedValues(counts, DOMAIN counts)

\* answer_counts_sorted[-2]
SecondLargest(counts) == answer_counts_sorted(counts)[Len(answer_counts_sorted(counts)) - 1]

\* the floor the median count is raised to, and the factor it is multiplied by
MedianFloor == 5
MedianFactor == 5

\* median_count = max(answer_counts_sorted[len // 2], 5)
median_count(counts) ==
    LET m == At(answer_counts_sorted(counts), Len(answer_counts_sorted(counts)) \div 2)
    IN  IF m > MedianFloor THEN m ELSE MedianFloor

\* the second-count test left out
SkipSecondNever(cur_answer_count, counts) == FALSE

\* cur_answer_count > 1.1 * answer_counts_sorted[-2]
SkipSecond(cur_answer_count, counts) == 10 * cur_answer_count > 11 * SecondLargest(counts)

\* the median test left out
SkipMedianNever(cur_answer_count, counts) == FALSE

\* cur_answer_count > 5.0 * median_count
SkipMedian(cur_answer_count, counts) == cur_answer_count > MedianFactor * median_count(counts)

\* what the reads of the terminal check raise before the two tests:
\* answer_counts[answer] a KeyError, answer_counts_sorted[-2] an IndexError
TableRaises(counts, answer) ==
    IF answer \notin DOMAIN counts THEN "KeyError"
    ELSE IF Cardinality(DOMAIN counts) < 2 THEN "IndexError"
    ELSE None

\* the rejection sampling heuristics skip a state with this answer
RejectionSkips(counts, answer) ==
    SkipSecond(counts[answer], counts) \/ SkipMedian(counts[answer], counts)

-----------------------------------------------------------------------------
(* The expansion of the next template node into successor states.          *)

special_nodes ==
    {"filter_unique", "filter_count", "filter_exist", "filter",
     "relate_filter", "relate_filter_unique", "relate_filter_count", "relate_filter_exist"}

\* next_node["type"].startswith("relate_filter"), for a special node
StartsWithRelate(type) ==
    type \in {"relate_filter", "relate_filter_unique", "relate_filter_count", "relate_filter_exist"}

\* extra_type, None when the composite node has no trailing node
extra_type(type) ==
    CASE type \in {"filter_unique", "relate_filter_unique"} -> "unique"
      [] type \in {"filter_count", "relate_filter_count"} -> "count"
      [] type \in {"filter_exist", "relate_filter_exist"} -> "exist"
      [] OTHER -> None

\* filter_type = "filter_%s" % param_type.lower()
filter_type(param_type) ==
    CASE param_type = "Size" -> "filter_size"
      [] param_type = "Color" -> "filter_color"
      [] param_type = "Material" -> "filter_material"
      [] param_type = "Shape" -> "filter_shape"
      [] param_type = "Relation" -> "filter_relation"

\* dict with dict[key] = value set
Put(dict, key, value) == (key :> value) @@ dict

\* the default trivial_frac of find_relate_filter_options, 0.1 = 1 / 10
TrivialFracNum == 1
TrivialFracDen == 10

\* attr_vals of add_empty_filter_options: the values each slot of a synthesized
\* key is drawn from
attr_vals ==
    (Range(Types.Size) \cup {None}) \X (Range(Types.Color) \cup {None})
        \X (Range(Types.Material) \cup {None}) \X (Range(Types.Shape) \cup {None})

\* the number of keys the while loop of add_empty_filter_options has added
\* when it ends. k is a generator object, not a tuple: it is equal to no key
\* of attribute_map, so every iteration adds it
RECURSIVE add_empty_filter_options(_, _, _)
add_empty_filter_options(len_attribute_map, target_size, added) ==
    IF len_attribute_map < target_size
    THEN add_empty_filter_options(len_attribute_map + 1, target_size, added + 1)
    ELSE added

\* num_to_add
num_to_add(type, filter_options) ==
    IF type = "filter_exist" THEN Cardinality(DOMAIN filter_options)
    ELSE Cardinality({k \in DOMAIN filter_options : Len(filter_options[k]) = 1})

\* the candidate keys of a plain filter-family node: the keys of filter_options
\* and the number of synthesized keys after them
FilterFamilyOptions(type, answer, scene) ==
    LET all == find_filter_options(answer.v, scene)
        kept == IF type = "filter" THEN DOMAIN all \ {<<None, None, None, None>>} ELSE DOMAIN all
        filter_options == [k \in kept |-> all[k]]
    IN  IF type = "filter_unique"
        THEN [keys |-> {k \in kept : Len(filter_options[k]) = 1}, gens |-> 0]
        ELSE [keys |-> kept,
              gens |-> add_empty_filter_options(Cardinality(kept),
                           Cardinality(kept) + num_to_add(type, filter_options), 0)]

\* the candidate keys a relate_filter-family node can get
RelateFamilyOptions(type, answer, scene) ==
    {[keys |-> DOMAIN r.value, gens |-> 0] :
        r \in find_relate_filter_options(answer.v, scene, type = "relate_filter_unique",
                  type \in {"relate_filter_count", "relate_filter_exist"},
                  TrivialFracNum, TrivialFracDen)}

\* the loop over zip(filter_side_inputs, k) from position i on: the nodes
\* appended, the values bound and next_input
RECURSIVE FilterChain(_, _, _, _, _, _)
FilterChain(param_name_to_type, filter_side_inputs, k, i, num_nodes, acc) ==
    IF i > Len(filter_side_inputs) \/ i > Len(k) THEN acc
    ELSE LET param_name == filter_side_inputs[i]
             param_type == param_name_to_type[param_name]
             param_val == k[i]
         IN  IF param_val # None
             THEN FilterChain(param_name_to_type, filter_side_inputs, k, i + 1, num_nodes,
                      [new_nodes |-> Append(acc.new_nodes,
                                        Node(filter_type(param_type), <<acc.next_input>>, <<param_val>>)),
                       vals |-> Put(acc.vals, param_name, param_val),
                       next_input |-> num_nodes + Len(acc.new_nodes) + 1 - 1])
             ELSE FilterChain(param_name_to_type, filter_side_inputs, k, i + 1, num_nodes,
                      [acc EXCEPT !.vals = Put(acc.vals, param_name,
                                               IF param_type = "Shape" THEN "thing" ELSE "")])

\* the trailing node given its own position as input: an index off by one
ExtraInputSelf(input_map, next_node, num_nodes, new_nodes) ==
    input_map[next_node.inputs[1]] + Len(new_nodes) + 1

\* input_map[next_node["inputs"][0]] + len(new_nodes)
ExtraInput(input_map, next_node, num_nodes, new_nodes) ==
    input_map[next_node.inputs[1]] + Len(new_nodes)

\* the state pushed for key k of a special node
CompositeSuccessor(tmpl, st, k) ==
    LET next_node == node_shallow_copy(At(tmpl.nodes, st.next_template_node))
        first_input == st.input_map[next_node.inputs[1]]
        relate == StartsWithRelate(next_node.type)
        start == IF relate
                 THEN [new_nodes |-> <<Node("relate", <<first_input>>, <<k[1]>>)>>,
                       vals |-> Put(st.vals, next_node.side_inputs[1], k[1]),
                       next_input |-> Len(st.nodes) + 1 - 1]
                 ELSE [new_nodes |-> <<>>, vals |-> st.vals, next_input |-> first_input]
        filter_side_inputs == IF relate THEN Tail(next_node.side_inputs) ELSE next_node.side_inputs
        chain == FilterChain(tmpl.params, filter_side_inputs, IF relate THEN k[2] ELSE k, 1,
                             Len(st.nodes), start)
        new_nodes == IF extra_type(next_node.type) # None
                     THEN Append(chain.new_nodes,
                              PlainNode(extra_type(next_node.type),
                                  <<ExtraInput(st.input_map, next_node, Len(st.nodes), chain.new_nodes)>>))
                     ELSE chain.new_nodes
    IN  [nodes |-> st.nodes \o new_nodes,
         vals |-> chain.vals,
         input_map |-> Put(st.input_map, st.next_template_node, Len(st.nodes) + Len(new_nodes) - 1),
         next_template_node |-> st.next_template_node + 1]

\* [input_map[idx] for idx in next_node["inputs"]]
MapInputs(input_map, inputs) == [i \in 1..Len(inputs) |-> input_map[inputs[i]]]

\* the successor of a simple node with the parent's next_template_node kept
ParamSuccessorStay(tmpl, st, val) ==
    LET next_node == node_shallow_copy(At(tmpl.nodes, st.next_template_node))
        input_map == Put(st.input_map, st.next_template_node, Len(st.nodes))
    IN  [nodes |-> Append(st.nodes, Node(next_node.type, MapInputs(input_map, next_node.inputs), <<val>>)),
         vals |-> Put(st.vals, next_node.side_inputs[1], val),
         input_map |-> input_map,
         next_template_node |-> st.next_template_node]

\* the state pushed for value val of the side input of a simple node
ParamSuccessor(tmpl, st, val) ==
    LET next_node == node_shallow_copy(At(tmpl.nodes, st.next_template_node))
        input_map == Put(st.input_map, st.next_template_node, Len(st.nodes))
    IN  [nodes |-> Append(st.nodes, Node(next_node.type, MapInputs(input_map, next_node.inputs), <<val>>)),
         vals |-> Put(st.vals, next_node.side_inputs[1], val),
         input_map |-> input_map,
         next_template_node |-> st.next_template_node + 1]

\* the state pushed for a node without side inputs
PlainSuccessor(tmpl, st) ==
    LET next_node == node_shallow_copy(At(tmpl.nodes, st.next_template_node))
        input_map == Put(st.input_map, st.next_template_node, Len(st.nodes))
    IN  [nodes |-> Append(st.nodes, PlainNode(next_node.type, MapInputs(input_map, next_node.inputs))),
         vals |-> st.vals,
         input_map |-> input_map,
         next_template_node |-> st.next_template_node + 1]

\* the successor of st the expansion loop builds for key k
Successor(tmpl, st, k) ==
    LET next_node == At(tmpl.nodes, st.next_template_node)
    IN  IF next_node.type \in special_nodes THEN CompositeSuccessor(tmpl, st, k)
        ELSE IF next_node.has_side_inputs THEN ParamSuccessor(tmpl, st, k)
        ELSE PlainSuccessor(tmpl, st)

\* the key sets the expansion of st can iterate over: the keys (or parameter
\* values) that are known when the loop starts and the number of synthesized
\* keys, whose values are drawn when their successor is built
Expansions(tmpl, st, answer, scene) ==
    LET next_node == At(tmpl.nodes, st.next_template_node)
    IN  IF next_node.type \in special_nodes
        THEN IF StartsWithRelate(next_node.type)
             THEN RelateFamilyOptions(next_node.type, answer, scene)
             ELSE {FilterFamilyOptions(next_node.type, answer, scene)}
        ELSE IF next_node.has_side_inputs
        THEN {[keys |-> Range(Types[tmpl.params[next_node.side_inputs[1]]]), gens |-> 0]}
        ELSE {[keys |-> {"node"}, gens |-> 0]}

\* initial_state
initial_state(tmpl) ==
    [nodes |-> <<node_shallow_copy(At(tmpl.nodes, 0))>>,
     vals |-> EmptyDict,
     input_map |-> (0 :> 0),
     next_template_node |-> 1]

-----------------------------------------------------------------------------
(* The scenes and templates the expander is run on.                        *)

\* runs of instantiate_templates_dfs in one answer-count window
MaxRuns == 2

Constraint(type, params) == [type |-> type, params |-> params]

\* a red and a gray object that differ in colour only
SceneTwo ==
    Scene(<<Object("large", "red", "rubber", "cube", 0),
            Object("large", "gray", "rubber", "cube", 1)>>, Positional(2))

\* two objects with the same attributes
SceneSame ==
    Scene(<<Object("large", "red", "rubber", "cube", 0),
            Object("large", "red", "rubber", "cube", 1)>>, Positional(2))

\* two objects that differ in size and colour
SceneSizes ==
    Scene(<<Object("large", "red", "rubber", "cube", 0),
            Object("small", "gray", "rubber", "cube", 1)>>, Positional(2))

\* two red objects and a gray one
SceneThree ==
    Scene(<<Object("large", "red", "rubber", "cube", 0),
            Object("large", "red", "rubber", "cube", 1),
            Object("large", "gray", "rubber", "cube", 2)>>, Positional(3))

ColorAnswers == {StrOut(c) : c \in Range(Types.Color)}
BoolAnswers == {BoolOut(TRUE), BoolOut(FALSE)}
\* answers = list(range(0, 11))
CountAnswers == {IntOut(n) : n \in 0..10}

\* "What color is the <C> thing?"
TmplQuery ==
    [nodes |-> <<PlainNode("scene", <<>>), Node("filter_color", <<0>>, <<"<C>">>),
                 PlainNode("unique", <<1>>), PlainNode("query_color", <<2>>)>>,
     params |-> ("<C>" :> "Color"),
     constraints |-> <<>>,
     answers |-> ColorAnswers]

\* "Is the <C> thing the same size as the <C2> thing?"
TmplCompare ==
    [nodes |-> <<PlainNode("scene", <<>>), Node("filter_color", <<0>>, <<"<C>">>),
                 PlainNode("unique", <<1>>), Node("filter_color", <<0>>, <<"<C2>">>),
                 PlainNode("unique", <<3>>), PlainNode("query_size", <<2>>),
                 PlainNode("query_size", <<4>>), PlainNode("equal_size", <<5, 6>>)>>,
     params |-> ("<C>" :> "Color") @@ ("<C2>" :> "Color"),
     constraints |-> <<Constraint("OUT_NEQ", <<2, 4>>)>>,
     answers |-> BoolAnswers]

\* "What color is the <C> thing?", asked with a second colour slot that has
\* to agree with the first
TmplTwoColors ==
    [nodes |-> <<PlainNode("scene", <<>>), Node("filter_color", <<0>>, <<"<C>">>),
                 Node("filter_color", <<0>>, <<"<C2>">>),
                 PlainNode("unique", <<1>>), PlainNode("query_color", <<3>>)>>,
     params |-> ("<C>" :> "Color") @@ ("<C2>" :> "Color"),
     constraints |-> <<Constraint("NEQ", <<"<C>", "<C2>">>)>>,
     answers |-> ColorAnswers]

\* "What color is the <Z> <C> <M> thing?", the shape left out
TmplFilterUnique ==
    [nodes |-> <<PlainNode("scene", <<>>),
                 Node("filter_unique", <<0>>, <<"<Z>", "<C>", "<M>", "<S>">>),
                 PlainNode("query_color", <<1>>)>>,
     params |-> ("<Z>" :> "Size") @@ ("<C>" :> "Color") @@ ("<M>" :> "Material")
                    @@ ("<S>" :> "Shape"),
     constraints |-> <<Constraint("NULL", <<"<S>">>)>>,
     answers |-> ColorAnswers]

\* "What color is the <C2> <M2> <S2> [that is] <R> the <C> thing?"
TmplRelate ==
    [nodes |-> <<PlainNode("scene", <<>>), Node("filter_color", <<0>>, <<"<C>">>),
                 PlainNode("unique", <<1>>),
                 Node("relate_filter_unique", <<2>>, <<"<R>", "<Z2>", "<C2>", "<M2>", "<S2>">>),
                 PlainNode("query_color", <<3>>)>>,
     params |-> ("<C>" :> "Color") @@ ("<R>" :> "Relation") @@ ("<Z2>" :> "Size")
                    @@ ("<C2>" :> "Color") @@ ("<M2>" :> "Material") @@ ("<S2>" :> "Shape"),
     constraints |-> <<Constraint("NULL", <<"<Z2>">>)>>,
     answers |-> ColorAnswers]

\* "Are there any <Z> <C> <M> <S>s?"
TmplExist ==
    [nodes |-> <<PlainNode("scene", <<>>),
                 Node("filter_exist", <<0>>, <<"<Z>", "<C>", "<M>", "<S>">>)>>,
     params |-> ("<Z>" :> "Size") @@ ("<C>" :> "Color") @@ ("<M>" :> "Material")
                    @@ ("<S>" :> "Shape"),
     constraints |-> <<>>,
     answers |-> BoolAnswers]

\* "Are there any <Z2> <C2> <M2> <S2>s among the <C> things?": filter_exist
\* on a set that can be a proper subset of the scene
TmplColorExist ==
    [nodes |-> <<PlainNode("scene", <<>>), Node("filter_color", <<0>>, <<"<C>">>),
                 Node("filter_exist", <<1>>, <<"<Z2>", "<C2>", "<M2>", "<S2>">>)>>,
     params |-> ("<C>" :> "Color") @@ ("<Z2>" :> "Size") @@ ("<C2>" :> "Color")
                    @@ ("<M2>" :> "Material") @@ ("<S2>" :> "Shape"),
     constraints |-> <<>>,
     answers |-> BoolAnswers]

\* "How many <Z> <C> <M> <S>s are there?"
TmplCount ==
    [nodes |-> <<PlainNode("scene", <<>>),
                 Node("filter_count", <<0>>, <<"<Z>", "<C>", "<M>", "<S>">>)>>,
     params |-> ("<Z>" :> "Size") @@ ("<C>" :> "Color") @@ ("<M>" :> "Material")
                    @@ ("<S>" :> "Shape"),
     constraints |-> <<>>,
     answers |-> CountAnswers]

\* "What color is the thing <R> the <C> thing?", with a raw relate node
TmplRawRelate ==
    [nodes |-> <<PlainNode("scene", <<>>), Node("filter_color", <<0>>, <<"<C>">>),
                 PlainNode("unique", <<1>>), Node("relate", <<2>>, <<"<R>">>),
                 PlainNode("unique", <<3>>), PlainNode("query_color", <<4>>)>>,
     params |-> ("<C>" :> "Color") @@ ("<R>" :> "Relation"),
     constraints |-> <<>>,
     answers |-> ColorAnswers]

\* the calls made: the template, max_instances, the scenes of the window and
\* whether the window holds more than one run
Config(tmpl, n, scenes, window) ==
    [template |-> tmpl, max_instances |-> n, scenes |-> scenes, window |-> window]

DfsConfigs ==
    {Config(TmplQuery, n, {SceneTwo, SceneSame, SceneThree}, TRUE) : n \in 0..2}
    \cup {Config(TmplCompare, n, {SceneTwo, SceneSizes}, TRUE) : n \in 1..2}
    \cup {Config(TmplTwoColors, 1, {SceneTwo}, TRUE),
          Config(TmplFilterUnique, 1, {SceneTwo, SceneSame}, FALSE),
          Config(TmplRelate, 1, {SceneTwo}, FALSE),
          Config(TmplExist, 1, {SceneTwo}, FALSE),
          Config(TmplColorExist, 1, {SceneTwo}, FALSE),
          Config(TmplCount, 1, {SceneTwo}, FALSE),
          Config(TmplRawRelate, 2, {SceneTwo, SceneThree}, TRUE)}

\* TmplQuery with a constraint of a type the loop has no branch for
TmplBadConstraint == [TmplQuery EXCEPT !.constraints = <<Constraint("EQ", <<"<C>">>)>>]

\* the same after a constraint the loop knows
TmplNullThenBad ==
    [TmplQuery EXCEPT !.constraints = <<Constraint("NULL", <<"<C>">>), Constraint("EQ", <<"<C>">>)>>]

\* TmplQuery with two side inputs on its filter node
TmplTwoSideInputs ==
    [TmplQuery EXCEPT !.nodes[2] = Node("filter_color", <<0>>, <<"<C>", "<C>">>)]

\* TmplQuery with an empty side-input list on its last node
TmplLateSideInputs ==
    [TmplQuery EXCEPT !.nodes[4] = Node("query_color", <<2>>, <<>>)]

\* TmplQuery with an empty side-input list on its first node
TmplFirstSideInputs ==
    [TmplQuery EXCEPT !.nodes[1] = Node("scene", <<>>, <<>>)]

\* TmplQuery with an answer table of one value, and one without gray
TmplOneAnswer == [TmplQuery EXCEPT !.answers = {StrOut("red")}]
TmplNoGray == [TmplQuery EXCEPT !.answers = {StrOut("red"), StrOut("cyan")}]

\* the calls made with malformed templates and with short answer tables
FatalConfigs ==
    {Config(t, 1, {SceneTwo, SceneSame}, FALSE) :
        t \in {TmplBadConstraint, TmplNullThenBad, TmplTwoSideInputs}}
    \cup {Config(TmplLateSideInputs, n, {SceneTwo, SceneSame, SceneThree}, TRUE) : n \in 1..2}
    \cup {Config(TmplFirstSideInputs, n, {SceneTwo, SceneSame, SceneThree}, TRUE) : n \in 1..2}
    \cup {Config(TmplOneAnswer, 1, {SceneTwo, SceneSame}, TRUE),
          Config(TmplNoGray, 2, {SceneTwo, SceneSame, SceneThree}, TRUE)}

\* "Are there any <C> things, and any <Z2> <C2> <M2> <S2>s?": a filter_exist
\* whose declared input is the scene node, two nodes back
TmplBranchExist ==
    [nodes |-> <<PlainNode("scene", <<>>), Node("filter_color", <<0>>, <<"<C>">>),
                 Node("filter_exist", <<0>>, <<"<Z2>", "<C2>", "<M2>", "<S2>">>)>>,
     params |-> ("<C>" :> "Color") @@ ("<Z2>" :> "Size") @@ ("<C2>" :> "Color")
                    @@ ("<M2>" :> "Material") @@ ("<S2>" :> "Shape"),
     constraints |-> <<>>,
     answers |-> BoolAnswers]

\* "What color is the <Z2> <C2> <M2> <S2>, given a <C> thing?": a
\* filter_unique whose declared input is the scene node, two nodes back
TmplBranchUnique ==
    [nodes |-> <<PlainNode("scene", <<>>), Node("filter_color", <<0>>, <<"<C>">>),
                 Node("filter_unique", <<0>>, <<"<Z2>", "<C2>", "<M2>", "<S2>">>),
                 PlainNode("query_color", <<2>>)>>,
     params |-> ("<C>" :> "Color") @@ ("<Z2>" :> "Size") @@ ("<C2>" :> "Color")
                    @@ ("<M2>" :> "Material") @@ ("<S2>" :> "Shape"),
     constraints |-> <<>>,
     answers |-> ColorAnswers]

\* the calls made with a composite node whose input is an earlier node
BranchConfigs ==
    {Config(TmplBranchExist, 1, {SceneTwo}, FALSE),
     Config(TmplBranchUnique, 1, {SceneTwo, SceneSizes}, FALSE),
     Config(TmplBranchUnique, 2, {SceneSame}, TRUE)}

\* the configuration of the call being made
ConfigOf(tmpl, n) ==
    CHOOSE c \in DfsConfigs \cup FatalConfigs \cup BranchConfigs :
        c.template = tmpl /\ c.max_instances = n

-----------------------------------------------------------------------------
(* instantiate_templates_dfs.                                              *)
(*                                                                         *)
(* The successors of one expansion are shuffled and pushed together, and   *)
(* states.pop() then takes them from the end of the list.  Popping from a   *)
(* shuffled group is drawing from it without replacement, so the stack is  *)
(* kept as the list of groups, each with its parent state, the keys not    *)
(* popped yet and the number of synthesized keys not popped yet; a pop     *)
(* takes any key of the last group.  The values of a synthesized key are   *)
(* random draws independent of everything else; they are drawn here when   *)
(* its successor is popped.                                                *)

Group(root, parent, keys, gens) == [root |-> root, parent |-> parent, keys |-> keys, gens |-> gens]

\* states = [initial_state]
InitialStack(tmpl) == <<Group(TRUE, initial_state(tmpl), {"root"}, 0)>>

Top == states[Len(states)]

\* what states.pop() can take: a key of the last group, or one of its
\* synthesized keys with the values drawn for it
Choices ==
    {[gen |-> FALSE, key |-> k] : k \in Top.keys}
        \cup {[gen |-> TRUE, key |-> k] : k \in IF Top.gens > 0 THEN attr_vals ELSE {}}

\* the state a group holds for choice c
StateOf(group, c) ==
    IF group.root THEN group.parent ELSE Successor(template, group.parent, c.key)

\* a pop that takes the whole last group
AfterPopGroup(c) == SubSeq(states, 1, Len(states) - 1)

\* the stack after the pop of c
AfterPop(c) ==
    LET g == IF c.gen THEN [Top EXCEPT !.gens = @ - 1] ELSE [Top EXCEPT !.keys = @ \ {c.key}]
    IN  IF g.keys = {} /\ g.gens = 0 THEN SubSeq(states, 1, Len(states) - 1)
        ELSE [states EXCEPT ![Len(states)] = g]

\* the stack after the successors for the key set e of parent st were pushed
AfterPush(stack, st, e) ==
    IF e.keys = {} /\ e.gens = 0 THEN stack ELSE Append(stack, Group(FALSE, st, e.keys, e.gens))

\* state["next_template_node"] == len(template["nodes"])
Complete(st) == st.next_template_node = Len(template.nodes)

\* the state as it is appended to final_states
WithAnswer(st, answer) ==
    [nodes |-> st.nodes, vals |-> st.vals, input_map |-> st.input_map,
     next_template_node |-> st.next_template_node, answer |-> answer]

\* the break taken one acceptance late
CapReachedLate(num_final, max) == num_final = max + 1

\* max_instances is not None and len(final_states) == max_instances
CapReached(num_final, max) == num_final = max

Init ==
    /\ pc = "dfs"
    /\ \E c \in DfsConfigs :
        /\ template = c.template
        /\ max_instances = c.max_instances
        /\ scene_struct \in c.scenes
    /\ answer_counts = [a \in template.answers |-> 0]
    /\ states = InitialStack(template)
    /\ final_states = <<>>
    /\ outcome = "none"
    /\ num_runs = 1
    /\ state = Unused /\ degen = {} /\ session = Unused
    /\ call_args = Unused /\ call_result = Unused

\* the loop body without the test for the invalid marker
OutcomeIgnoreInvalid(st, outputs, counts) ==
    IF Last(outputs).t = "invalid" THEN (IF Complete(st) THEN "accept" ELSE "expand")
    ELSE IF skip_state(template, st, outputs) THEN "constraint"
    ELSE IF ~Complete(st) THEN "expand"
    ELSE IF RejectionSkips(counts, Last(outputs)) THEN "rejected"
    ELSE "accept"

\* assert len(next_node["side_inputs"]) == 1 fails for the node st expands next
ExpansionAsserts(tmpl, st) ==
    LET next_node == node_shallow_copy(At(tmpl.nodes, st.next_template_node))
    IN  /\ next_node.type \notin special_nodes
        /\ next_node.has_side_inputs
        /\ Len(next_node.side_inputs) # 1

\* the errors the loop body can raise
Errors == {"AssertionError", "KeyError", "IndexError"}

\* what the loop body does with a popped state: "invalid", "constraint",
\* "rejected", "accept" or "expand", or the error it raises
Outcome(st, outputs, counts) ==
    IF Last(outputs).t = "invalid" THEN "invalid"
    ELSE IF ConstraintAsserts(template, st, outputs) THEN "AssertionError"
    ELSE IF skip_state(template, st, outputs) THEN "constraint"
    ELSE IF ~Complete(st) THEN (IF ExpansionAsserts(template, st) THEN "AssertionError"
                                ELSE "expand")
    ELSE IF TableRaises(counts, Last(outputs)) # None THEN TableRaises(counts, Last(outputs))
    ELSE IF RejectionSkips(counts, Last(outputs)) THEN "rejected"
    ELSE "accept"

\* while states: the loop test
LoopTest ==
    /\ pc = "dfs"
    /\ pc' = IF states # <<>> THEN "dfs_body" ELSE "dfs_done"
    /\ UNCHANGED <<scene_struct, template, max_instances, answer_counts, states, final_states,
                   outcome, num_runs, state, degen, call_args, call_result, session>>

\* has_relate = any(n["type"] == "relate" for n in template["nodes"])
has_relate(tmpl) == \E n \in DOMAIN tmpl.nodes : tmpl.nodes[n].type = "relate"

\* what qeng.is_degenerate(q, metadata, scene_struct, answer=answer) can return
is_degenerate == BOOLEAN

\* the loop body: pop a state, check it, and discard, accept or expand it
Iterate ==
    /\ pc = "dfs_body"
    /\ \E c \in Choices :
        LET st == StateOf(Top, c)
            outputs == answer_question(st.nodes, scene_struct)
            answer == Last(outputs)
            passed == Outcome(st, outputs, answer_counts)
            checked == passed = "accept" /\ has_relate(template)
        IN  \E d \in IF checked THEN {{b} : b \in is_degenerate} ELSE {{}} :
            LET out == IF d = {TRUE} THEN "degenerate" ELSE passed
            IN  /\ state' = st
                /\ degen' = d
                /\ outcome' = out
                /\ answer_counts' = IF out = "accept"
                                    THEN [answer_counts EXCEPT ![answer] = @ + 1]
                                    ELSE answer_counts
                /\ final_states' = IF out = "accept"
                                   THEN Append(final_states, WithAnswer(st, answer))
                                   ELSE final_states
                /\ pc' = IF out \in Errors THEN "dfs_error"
                         ELSE IF out = "accept"
                                 /\ CapReached(Len(final_states) + 1, max_instances)
                         THEN "dfs_done" ELSE "dfs"
                /\ IF out = "expand"
                   THEN \E e \in Expansions(template, st, answer, scene_struct) :
                            states' = AfterPush(AfterPop(c), st, e)
                   ELSE states' = AfterPop(c)
                /\ scene_struct' = IF out = "expand"
                                      /\ At(template.nodes, st.next_template_node).type
                                             \in special_nodes
                                   THEN WithFilterOptions(scene_struct) ELSE scene_struct
    /\ UNCHANGED <<template, max_instances, num_runs, call_args, call_result, session>>

\* the next call in the window: the same template and table, any scene
NewRun ==
    /\ pc = "dfs_done" /\ num_runs < MaxRuns
    /\ ConfigOf(template, max_instances).window
    /\ \E s \in ConfigOf(template, max_instances).scenes :
        scene_struct' = IF s.objects = scene_struct.objects THEN scene_struct ELSE s
    /\ states' = InitialStack(template)
    /\ final_states' = <<>>
    /\ num_runs' = num_runs + 1
    /\ pc' = "dfs"
    /\ outcome' = "none"
    /\ state' = Unused /\ degen' = {}
    /\ UNCHANGED <<template, max_instances, answer_counts, call_args, call_result, session>>

Next ==
    \/ LoopTest
    \/ Iterate
    \/ NewRun

Spec == Init /\ [][Next]_vars

\* the calls made with a malformed template or a short answer table
FatalInit ==
    /\ pc = "dfs"
    /\ \E c \in FatalConfigs :
        /\ template = c.template
        /\ max_instances = c.max_instances
        /\ scene_struct \in c.scenes
    /\ answer_counts = [a \in template.answers |-> 0]
    /\ states = InitialStack(template)
    /\ final_states = <<>>
    /\ outcome = "none"
    /\ num_runs = 1
    /\ state = Unused /\ degen = {} /\ session = Unused
    /\ call_args = Unused /\ call_result = Unused

SpecFatal == FatalInit /\ [][Next]_vars

\* the calls made with a composite node whose input is an earlier node
BranchInit ==
    /\ pc = "dfs"
    /\ \E c \in BranchConfigs :
        /\ template = c.template
        /\ max_instances = c.max_instances
        /\ scene_struct \in c.scenes
    /\ answer_counts = [a \in template.answers |-> 0]
    /\ states = InitialStack(template)
    /\ final_states = <<>>
    /\ outcome = "none"
    /\ num_runs = 1
    /\ state = Unused /\ degen = {} /\ session = Unused
    /\ call_args = Unused /\ call_result = Unused

SpecBranch == BranchInit /\ [][Next]_vars

\* the loop body comes to its end: control is back at the loop test or past
\* the loop. Every step of Iterate is such a step, and no other step is
BodyEnds == pc = "dfs_body" /\ pc' \in {"dfs", "dfs_done", "dfs_error"}

\* the interpreter keeps running the call: the loop test is taken, and a loop
\* body that was entered runs to its end
FairSpec == Spec /\ WF_vars(LoopTest) /\ WF_pc(BodyEnds)

-----------------------------------------------------------------------------
(* Properties of instantiate_templates_dfs.                                *)

InDfs == pc \in {"dfs", "dfs_body", "dfs_done"}

\* the states a group of the stack holds, for every value its synthesized
\* keys can take
GroupStates(group) ==
    {StateOf(group, [gen |-> FALSE, key |-> k]) : k \in group.keys}
        \cup {StateOf(group, [gen |-> TRUE, key |-> k]) :
                 k \in IF group.gens > 0 THEN attr_vals ELSE {}}

\* every state on the DFS stack
StackStates == UNION {GroupStates(states[i]) : i \in DOMAIN states}

\* C1: the number of states accepted (appended to final_states) never exceeds
\* max_instances, for every max_instances including 0 and 1.
C1_CapRespected == InDfs => Len(final_states) <= max_instances

\* the same for max_instances of at least 1
C1_CapRespectedPositive == (InDfs /\ max_instances >= 1) => Len(final_states) <= max_instances

\* C2: every accepted state has a node sequence whose evaluation does not end
\* in the invalid marker, and the answer recorded on it is that final output.
C2_AcceptedValid ==
    InDfs =>
        \A i \in DOMAIN final_states :
            LET outputs == answer_question(final_states[i].nodes, scene_struct)
            IN  /\ Len(outputs) = Len(final_states[i].nodes)
                /\ \A j \in DOMAIN outputs : outputs[j].t # "invalid"
                /\ final_states[i].answer.t # "invalid"
                /\ OutEq(final_states[i].answer, Last(outputs))

\* a run on the scene with two red objects that discarded the red branch as
\* invalid and accepted the gray one
C2_Witness ==
    /\ pc = "dfs_done" /\ template = TmplQuery /\ max_instances = 2
    /\ Len(scene_struct.objects) = 3
    /\ states = <<>>
    /\ Len(final_states) = 1
    /\ final_states[1].answer = StrOut("gray")

\* constraint c of the template holds over the final values of accepted state f
ConstraintHolds(c, f, tmpl, scene) ==
    CASE c.type = "NEQ" ->
            ~(/\ c.params[1] \in DOMAIN f.vals
              /\ c.params[2] \in DOMAIN f.vals
              /\ f.vals[c.params[1]] # f.vals[c.params[2]])
      [] c.type = "NULL" ->
            \/ c.params[1] \notin DOMAIN f.vals
            \/ f.vals[c.params[1]] = IF tmpl.params[c.params[1]] = "Shape" THEN "thing" ELSE ""
      [] c.type = "OUT_NEQ" ->
            LET outputs == answer_question(f.nodes, scene)
            IN  ~OutEq(At(outputs, f.input_map[c.params[1]]), At(outputs, f.input_map[c.params[2]]))

\* C3: for every accepted state and every constraint of its template, the
\* constraint holds over the state's final values: NEQ(p1,p2): the two
\* parameters are not both bound with unequal values; NULL(p): p is unbound or
\* "thing" for a Shape and "" otherwise; OUT_NEQ(i,j): the outputs of the
\* concrete nodes that template nodes i and j map to are not equal.
C3_ConstraintsHold ==
    InDfs =>
        \A i \in DOMAIN final_states : \A c \in DOMAIN template.constraints :
            ConstraintHolds(template.constraints[c], final_states[i], template, scene_struct)

\* accepted states under a NULL, a NEQ and an OUT_NEQ constraint
C3_WitnessNull ==
    /\ InDfs /\ template = TmplFilterUnique /\ Len(final_states) = 1
    /\ final_states[1].vals["<S>"] = "thing" /\ final_states[1].vals["<C>"] = "gray"
C3_WitnessNeq ==
    /\ InDfs /\ template = TmplTwoColors /\ Len(final_states) = 1
    /\ final_states[1].vals["<C>"] = "gray" /\ final_states[1].vals["<C2>"] = "gray"
C3_Witness ==
    /\ InDfs /\ template = TmplCompare /\ Len(final_states) = 1
    /\ final_states[1].vals["<C>"] = "red" /\ final_states[1].vals["<C2>"] = "gray"
    /\ outcome = "accept"

\* C5: the DFS loop terminates, and when it stops either the stack is empty
\* or the number of accepted states equals max_instances.
C5_Terminates ==
    /\ [](pc \in {"dfs", "dfs_body"} => <>(pc = "dfs_done"))
    /\ [](pc = "dfs_done" => (states = <<>> \/ Len(final_states) = max_instances))

\* a run that stopped at the cap and abandoned what was left on the stack,
\* among it keys that add_empty_filter_options synthesized
C5_Witness ==
    /\ pc = "dfs_done" /\ template = TmplExist
    /\ states # <<>> /\ Top.gens > 0
    /\ Len(final_states) = max_instances

\* a run that stopped with an empty stack and nothing accepted
C5_WitnessEmpty ==
    /\ pc = "dfs_done" /\ states = <<>> /\ final_states = <<>> /\ max_instances = 1

\* every input of every node of st is a position before the node
InputsPrecede(st) ==
    \A n \in DOMAIN st.nodes : \A i \in DOMAIN st.nodes[n].inputs :
        st.nodes[n].inputs[i] >= 0 /\ st.nodes[n].inputs[i] < n - 1

\* C6: in every state on the DFS stack, every input index of every concrete
\* node refers to a node at a strictly lower position of the node sequence.
C6_InputsPrecede == pc \in {"dfs", "dfs_body"} => \A st \in StackStates : InputsPrecede(st)

\* a stacked state that ends in a relate node, a filter node and the unique
\* node of an expanded relate_filter_unique
C6_Witness ==
    /\ pc = "dfs" /\ outcome = "expand" /\ template = TmplRelate
    /\ \E st \in StackStates :
        /\ Len(st.nodes) = 6
        /\ st.nodes[4].type = "relate" /\ st.nodes[5].type = "filter_color"
        /\ st.nodes[6].type = "unique" /\ st.nodes[6].inputs = <<4>>

-----------------------------------------------------------------------------
(* The rejection sampling heuristics over one answer-count window: the     *)
(* terminal check of instantiate_templates_dfs applied, in any order, to   *)
(* complete valid states with the answers that occur.                      *)

\* the largest count an answer is taken to
MaxCount == 27

\* the answers of the template's table, and those that scenes produce
WindowAnswers == {"a1", "a2", "a3", "a4", "a5"}
OccurringAnswers == {"a1", "a2", "a3"}

WindowInit ==
    /\ pc = "window"
    /\ answer_counts = [a \in WindowAnswers |-> 0]
    /\ outcome = "none"
    /\ call_args = Unused
    /\ scene_struct = Unused /\ template = Unused /\ max_instances = Unused
    /\ states = Unused /\ final_states = Unused /\ num_runs = Unused /\ call_result = Unused
    /\ state = Unused /\ degen = Unused /\ session = Unused

\* a complete state with answer a reaches the heuristics: it is skipped, or
\* accepted and counted
TerminalCheck ==
    /\ pc = "window"
    /\ \E a \in OccurringAnswers :
        /\ answer_counts[a] < MaxCount
        /\ call_args' = a
        /\ IF RejectionSkips(answer_counts, a)
           THEN outcome' = "rejected" /\ answer_counts' = answer_counts
           ELSE outcome' = "accept" /\ answer_counts' = [answer_counts EXCEPT ![a] = @ + 1]
    /\ UNCHANGED <<pc, scene_struct, template, max_instances, states, final_states,
                   num_runs, state, degen, call_result, session>>

WindowNext == TerminalCheck

SpecWindow == WindowInit /\ [][WindowNext]_vars

HasCounts == pc \in {"window", "dfs", "dfs_body", "dfs_done"}

\* the middle element of the sorted counts, as it is before the floor of 5
RawMedian == At(answer_counts_sorted(answer_counts), Len(answer_counts_sorted(answer_counts)) \div 2)

\* C4 as stated: within one answer-count window no answer's count exceeds
\* max(5, 5 * median_count), and none exceeds 1.1 * second_largest_count
\* except the answer whose count is the second-largest count.
C4_BalanceAsStated ==
    HasCounts =>
        \A a \in DOMAIN answer_counts :
            /\ answer_counts[a] <= (IF 5 * RawMedian > 5 THEN 5 * RawMedian ELSE 5)
            /\ \/ 10 * answer_counts[a] <= 11 * SecondLargest(answer_counts)
               \/ answer_counts[a] = SecondLargest(answer_counts)

\* C4: within one answer-count window no answer's count exceeds
\* 1.1 * second_largest_count + 1, and none exceeds 5 * max(5, median_count) + 1
\* where median_count is the element at index len // 2 of the sorted counts:
\* both tests are made on the count before the acceptance that raises it.
C4_BalanceBound ==
    HasCounts =>
        \A a \in DOMAIN answer_counts :
            /\ 10 * (answer_counts[a] - 1) <= 11 * SecondLargest(answer_counts)
            /\ answer_counts[a] - 1 <= MedianFactor * median_count(answer_counts)

\* an answer was skipped by the median test alone, with its count at the bound
C4_Witness ==
    /\ pc = "window" /\ outcome = "rejected"
    /\ SkipMedian(answer_counts[call_args], answer_counts)
    /\ ~SkipSecond(answer_counts[call_args], answer_counts)
    /\ answer_counts[call_args] = MedianFactor * median_count(answer_counts) + 1

\* an answer was skipped by the second-count test, with its count at the bound
C4_WitnessSecond ==
    /\ pc = "window" /\ outcome = "rejected"
    /\ SkipSecond(answer_counts[call_args], answer_counts)
    /\ SecondLargest(answer_counts) = 10
    /\ answer_counts[call_args] = 12

-----------------------------------------------------------------------------
(* The list-operation generators: the colours of a scene along the x axis, *)
(* and the questions and answers of the delete task.                       *)

\* the longest colour list drawn
MaxColors == 3

query_colors == <<"red", "gray", "yellow", "cyan">>
query_positions == <<"1st", "2nd", "3rd">>

\* delete_questions, in the order of the list
delete_questions ==
    [i \in 1..(Len(query_colors) * Len(query_positions)) |->
        <<"delete", query_colors[((i - 1) \div Len(query_positions)) + 1],
          query_positions[((i - 1) % Len(query_positions)) + 1]>>]

\* the object lists of at most n objects, their colours among query_colors
\* and their x coordinates distinct
GenObjectLists(n) ==
    UNION {{l \in [1..k -> {Object("large", c, "rubber", "cube", x) :
                               c \in Range(query_colors), x \in 0..(k - 1)}] :
               \A i, j \in 1..k : i # j => l[i].x # l[j].x} : k \in 0..n}

\* objs with obj put after the last element whose x is not larger
RECURSIVE InsertByX(_, _)
InsertByX(objs, obj) ==
    IF objs = <<>> THEN <<obj>>
    ELSE IF obj.x < Head(objs).x THEN <<obj>> \o objs
    ELSE <<Head(objs)>> \o InsertByX(Tail(objs), obj)

\* objs.sort(key=lambda x: x["3d_coords"][0]), a stable sort
RECURSIVE SortByX(_)
SortByX(objs) ==
    IF objs = <<>> THEN <<>>
    ELSE InsertByX(SortByX(SubSeq(objs, 1, Len(objs) - 1)), objs[Len(objs)])

\* the colours json_scene_to_colors returns; it leaves scene_struct["objects"]
\* sorted
json_scene_to_colors(scene) == [i \in DOMAIN scene.objects |-> SortByX(scene.objects)[i].color]

\* delete_object: colors without the first element equal to query_color
RECURSIVE delete_object(_, _)
delete_object(query_color, colors) ==
    IF colors = <<>> THEN <<>>
    ELSE IF Head(colors) = query_color THEN Tail(colors)
    ELSE <<Head(colors)>> \o delete_object(query_color, Tail(colors))

\* the index get_object_by_position reads
PositionIndex(position) == IF position = "1st" THEN 0 ELSE IF position = "2nd" THEN 1 ELSE 2

\* get_object_by_position: colors[0], colors[1] or colors[2]
get_object_by_position(colors, position) ==
    IF PositionIndex(position) < Len(colors)
    THEN Returned(At(colors, PositionIndex(position)))
    ELSE Raised("IndexError")

\* the loop of get_questions_and_answers_delete from question i on, with the
\* lists built so far
RECURSIVE DeleteLoop(_, _, _, _)
DeleteLoop(colors, i, valid_questions, answers) ==
    IF i > Len(delete_questions)
    THEN Returned([valid_questions |-> valid_questions, answers |-> answers])
    ELSE LET query_color == delete_questions[i][2]
             query_position == delete_questions[i][3]
         IN  IF query_color \in Range(colors) /\ query_position \in {"1st", "2nd"}
             THEN LET result_colors == delete_object(query_color, colors)
                      answer == get_object_by_position(result_colors, query_position)
                  IN  IF answer.error # None THEN answer
                      ELSE DeleteLoop(colors, i + 1,
                                      Append(valid_questions, delete_questions[i]),
                                      Append(answers, answer.value))
             ELSE DeleteLoop(colors, i + 1, valid_questions, answers)

get_questions_and_answers_delete(scene) ==
    DeleteLoop(json_scene_to_colors(scene), 1, <<>>, <<>>)

GenInit ==
    /\ pc = "gen_start"
    /\ scene_struct \in {Scene(objs, EmptyDict) : objs \in GenObjectLists(MaxColors)}
    /\ call_args = Unused /\ call_result = Unused
    /\ template = Unused /\ max_instances = Unused /\ answer_counts = Unused
    /\ states = Unused /\ final_states = Unused /\ outcome = Unused /\ num_runs = Unused
    /\ state = Unused /\ degen = Unused /\ session = Unused

\* the call get_questions_and_answers_delete(scene_struct)
DeleteCall ==
    /\ pc = "gen_start"
    /\ call_args' = "delete"
    /\ call_result' = get_questions_and_answers_delete(scene_struct)
    /\ scene_struct' = [scene_struct EXCEPT !.objects = SortByX(@)]
    /\ pc' = "gen_done"
    /\ UNCHANGED <<template, max_instances, answer_counts, states, final_states,
                   outcome, num_runs, state, degen, session>>

\* append_questions, reverse_questions and sort_questions, in the order of
\* the lists
append_questions ==
    [i \in 1..(Len(query_colors) * Len(query_positions)) |->
        <<"append", query_colors[((i - 1) \div Len(query_positions)) + 1],
          query_positions[((i - 1) % Len(query_positions)) + 1]>>]
reverse_questions == [i \in 1..Len(query_positions) |-> <<"reverse", query_positions[i]>>]
sort_questions == [i \in 1..Len(query_positions) |-> <<"sort", query_positions[i]>>]

\* append_object: [query_color] + colors
append_object(query_color, colors) == <<query_color>> \o colors

\* reverse_objects: list(reversed(colors))
RECURSIVE reverse_objects(_)
reverse_objects(colors) ==
    IF colors = <<>> THEN <<>> ELSE Append(reverse_objects(Tail(colors)), Head(colors))

\* the place of a colour name in the order of Python's string comparison:
\* "cyan" < "gray" < "red" < "yellow"
StrRank(str) ==
    CASE str = "cyan" -> 1 [] str = "gray" -> 2 [] str = "red" -> 3 [] str = "yellow" -> 4

\* colors with color put after the last element that is not larger
RECURSIVE InsertByStr(_, _)
InsertByStr(colors, color) ==
    IF colors = <<>> THEN <<color>>
    ELSE IF StrRank(color) < StrRank(Head(colors)) THEN <<color>> \o colors
    ELSE <<Head(colors)>> \o InsertByStr(Tail(colors), color)

\* sort_objects: sorted(colors)
RECURSIVE sort_objects(_)
sort_objects(colors) ==
    IF colors = <<>> THEN <<>>
    ELSE InsertByStr(sort_objects(SubSeq(colors, 1, Len(colors) - 1)), colors[Len(colors)])

\* the loop of get_questions_and_answers_append, _reverse and _sort from
\* question i of questions on: every question is kept, and its answer read
\* from result_colors, the list the function named by task builds from colors
RECURSIVE AnswerLoop(_, _, _, _, _, _)
AnswerLoop(task, questions, colors, i, valid_questions, answers) ==
    IF i > Len(questions)
    THEN Returned([valid_questions |-> valid_questions, answers |-> answers])
    ELSE LET query_position == questions[i][Len(questions[i])]
             result_colors == CASE task = "append" -> append_object(questions[i][2], colors)
                                [] task = "reverse" -> reverse_objects(colors)
                                [] task = "sort" -> sort_objects(colors)
             answer == get_object_by_position(result_colors, query_position)
         IN  IF answer.error # None THEN answer
             ELSE AnswerLoop(task, questions, colors, i + 1,
                             Append(valid_questions, questions[i]),
                             Append(answers, answer.value))

get_questions_and_answers_append(scene) ==
    AnswerLoop("append", append_questions, json_scene_to_colors(scene), 1, <<>>, <<>>)

get_questions_and_answers_reverse(scene) ==
    AnswerLoop("reverse", reverse_questions, json_scene_to_colors(scene), 1, <<>>, <<>>)

get_questions_and_answers_sort(scene) ==
    AnswerLoop("sort", sort_questions, json_scene_to_colors(scene), 1, <<>>, <<>>)

\* the call get_questions_and_answers_append(scene_struct)
AppendCall ==
    /\ pc = "gen_start"
    /\ call_args' = "append"
    /\ call_result' = get_questions_and_answers_append(scene_struct)
    /\ scene_struct' = [scene_struct EXCEPT !.objects = SortByX(@)]
    /\ pc' = "gen_done"
    /\ UNCHANGED <<template, max_instances, answer_counts, states, final_states,
                   outcome, num_runs, state, degen, session>>

\* the call get_questions_and_answers_reverse(scene_struct)
ReverseCall ==
    /\ pc = "gen_start"
    /\ call_args' = "reverse"
    /\ call_result' = get_questions_and_answers_reverse(scene_struct)
    /\ scene_struct' = [scene_struct EXCEPT !.objects = SortByX(@)]
    /\ pc' = "gen_done"
    /\ UNCHANGED <<template, max_instances, answer_counts, states, final_states,
                   outcome, num_runs, state, degen, session>>

\* the call get_questions_and_answers_sort(scene_struct)
SortCall ==
    /\ pc = "gen_start"
    /\ call_args' = "sort"
    /\ call_result' = get_questions_and_answers_sort(scene_struct)
    /\ scene_struct' = [scene_struct EXCEPT !.objects = SortByX(@)]
    /\ pc' = "gen_done"
    /\ UNCHANGED <<template, max_instances, answer_counts, states, final_states,
                   outcome, num_runs, state, degen, session>>

GenNext ==
    \/ DeleteCall
    \/ AppendCall
    \/ ReverseCall
    \/ SortCall

SpecGen == GenInit /\ [][GenNext]_vars

\* the colours of objs in the order of their x coordinates
ColoursByX(objs) ==
    [i \in DOMAIN objs |->
        (CHOOSE o \in Range(objs) : Cardinality({q \in Range(objs) : q.x < o.x}) = i - 1).color]

\* colours without its element at position i
Without(colours, i) == SubSeq(colours, 1, i - 1) \o SubSeq(colours, i + 1, Len(colours))

\* colours with only the first occurrence of c removed
FirstRemoved(colours, c) ==
    Without(colours, CHOOSE i \in DOMAIN colours :
                        colours[i] = c /\ \A j \in 1..(i - 1) : colours[j] # c)

\* C10: for every scene whose colour list L (objects ordered by x) contains
\* query colour c and every position p in {1st, 2nd}, the call
\* get_questions_and_answers_delete emits the question (delete, c, p) with the
\* p-th element of L without the first occurrence of c as its answer.
C10_DeleteAnswers ==
    (pc = "gen_done" /\ call_args = "delete") =>
        LET L == ColoursByX(scene_struct.objects)
        IN  \A c \in Range(query_colors) : \A p \in 1..2 :
                c \in Range(L) =>
                    /\ call_result.error = None
                    /\ p <= Len(FirstRemoved(L, c))
                    /\ \E i \in DOMAIN call_result.value.valid_questions :
                        /\ call_result.value.valid_questions[i] = <<"delete", c, query_positions[p]>>
                        /\ call_result.value.answers[i] = FirstRemoved(L, c)[p]

\* the same for the scenes of three objects
C10_DeleteAnswersThree ==
    (pc = "gen_done" /\ call_args = "delete" /\ Len(scene_struct.objects) = 3) =>
        LET L == ColoursByX(scene_struct.objects)
        IN  \A c \in Range(query_colors) : \A p \in 1..2 :
                c \in Range(L) =>
                    /\ call_result.error = None
                    /\ \E i \in DOMAIN call_result.value.valid_questions :
                        /\ call_result.value.valid_questions[i] = <<"delete", c, query_positions[p]>>
                        /\ call_result.value.answers[i] = FirstRemoved(L, c)[p]

\* C11: for every scene, whatever its contents and number of objects,
\* get_questions_and_answers_append reports every one of the 12 append
\* questions as valid, and the answer of each append question with position
\* 1st is its query colour.
C11_AppendAlwaysValid ==
    (pc = "gen_done" /\ call_args = "append") =>
        /\ call_result.error = None
        /\ \A c \in Range(query_colors) : \A p \in DOMAIN query_positions :
            \E i \in DOMAIN call_result.value.valid_questions :
                /\ call_result.value.valid_questions[i] = <<"append", c, query_positions[p]>>
                /\ p = 1 => call_result.value.answers[i] = c

\* the same for the scenes of at least two objects
C11_AppendValidFromTwo ==
    (pc = "gen_done" /\ call_args = "append" /\ Len(scene_struct.objects) >= 2) =>
        /\ call_result.error = None
        /\ Len(call_result.value.valid_questions) = 12
        /\ \A c \in Range(query_colors) : \A p \in DOMAIN query_positions :
            \E i \in DOMAIN call_result.value.valid_questions :
                /\ call_result.value.valid_questions[i] = <<"append", c, query_positions[p]>>
                /\ p = 1 => call_result.value.answers[i] = c

\* L from its last element to its first
Reversed(L) == [i \in DOMAIN L |-> L[Len(L) + 1 - i]]

\* the element at place p of L put in the order of the colour names
SortedAt(L, p) ==
    CHOOSE c \in Range(L) :
        /\ Cardinality({i \in DOMAIN L : StrRank(L[i]) < StrRank(c)}) < p
        /\ p <= Cardinality({i \in DOMAIN L : StrRank(L[i]) <= StrRank(c)})

\* the answer the claim gives question type q at position p for colour list L
ListAnswer(q, L, p) == IF q = "reverse" THEN Reversed(L)[p] ELSE SortedAt(L, p)

\* C12: for every scene with colour list L (objects ordered by x) and every
\* position p not beyond the length of L, get_questions_and_answers_reverse
\* and get_questions_and_answers_sort yield for position p the p-th element
\* of reverse(L) and of L sorted lexicographically.
C12_ReverseSortAnswers ==
    (pc = "gen_done" /\ call_args \in {"reverse", "sort"}) =>
        LET L == ColoursByX(scene_struct.objects)
        IN  \A p \in DOMAIN query_positions :
                p <= Len(L) =>
                    /\ call_result.error = None
                    /\ \E i \in DOMAIN call_result.value.valid_questions :
                        /\ call_result.value.valid_questions[i] = <<call_args, query_positions[p]>>
                        /\ call_result.value.answers[i] = ListAnswer(call_args, L, p)

\* the same for the scenes of at least three objects
C12_ReverseSortFromThree ==
    (pc = "gen_done" /\ call_args \in {"reverse", "sort"} /\ Len(scene_struct.objects) >= 3) =>
        LET L == ColoursByX(scene_struct.objects)
        IN  \A p \in DOMAIN query_positions :
                /\ call_result.error = None
                /\ \E i \in DOMAIN call_result.value.valid_questions :
                    /\ call_result.value.valid_questions[i] = <<call_args, query_positions[p]>>
                    /\ call_result.value.answers[i] = ListAnswer(call_args, L, p)

-----------------------------------------------------------------------------
(* The text post-processing: other_heuristic and replace_optionals. A text *)
(* is a sequence of pieces, each a character or a word taken as a whole.   *)

\* the longest text drawn
MaxTextLen == 5

\* the texts of at most n pieces out of alphabet
Texts(alphabet, n) == UNION {[1..k -> alphabet] : k \in 0..n}

\* pat in text
Contains(text, pat) ==
    \E i \in 1..(Len(text) - Len(pat) + 1) : SubSeq(text, i, i + Len(pat) - 1) = pat

\* text.replace(old, new): every occurrence of old, found from the left and
\* not overlapping the one before
RECURSIVE Replace(_, _, _)
Replace(text, old, new) ==
    IF Len(text) < Len(old) THEN text
    ELSE IF SubSeq(text, 1, Len(old)) = old
         THEN new \o Replace(SubSeq(text, Len(old) + 1, Len(text)), old, new)
         ELSE <<Head(text)>> \o Replace(Tail(text), old, new)

\* " other ", " another ", " " and " a "
OtherText == <<" ", "other", " ">>
AnotherText == <<" ", "another", " ">>
SpaceText == <<" ">>
AText == <<" ", "a", " ">>

target_keys == {"<Z>", "<C>", "<M>", "<S>", "<Z2>", "<C2>", "<M2>", "<S2>"}
key_pairs == <<<<"<Z>", "<Z2>">>, <<"<C>", "<C2>">>, <<"<M>", "<M2>">>, <<"<S>", "<S2>">>>>

\* "other" goes only when every pair differs
remove_otherEvery(param_vals) ==
    \A i \in DOMAIN key_pairs :
        LET v1 == Get(param_vals, key_pairs[i][1])
            v2 == Get(param_vals, key_pairs[i][2])
        IN  v1 # "" /\ v2 # "" /\ v1 # v2

\* remove_other after the loop over key_pairs, which stops at the first pair
\* with two non-empty unequal values
remove_other(param_vals) ==
    \E i \in DOMAIN key_pairs :
        LET v1 == Get(param_vals, key_pairs[i][1])
            v2 == Get(param_vals, key_pairs[i][2])
        IN  v1 # "" /\ v2 # "" /\ v1 # v2

other_heuristic(text, param_vals) ==
    IF ~Contains(text, OtherText) /\ ~Contains(text, AnotherText) THEN text
    ELSE IF DOMAIN param_vals # target_keys THEN text
    ELSE IF ~remove_other(param_vals) THEN text
    ELSE LET text1 == IF Contains(text, OtherText)
                      THEN Replace(text, OtherText, SpaceText) ELSE text
         IN  IF Contains(text1, AnotherText) THEN Replace(text1, AnotherText, AText) ELSE text1

\* the values a pair of parameters is drawn with: unequal, equal, and one
\* side empty
PairVals == {<<"a", "b">>, <<"a", "a">>, <<"", "b">>, <<"a", "">>}
FewPairVals == {<<"a", "b">>, <<"a", "a">>}

\* the dict with the eight target keys for the four pairs of values
PairedVals(z, c, m, s) ==
    [k \in target_keys |->
        CASE k = "<Z>" -> z[1] [] k = "<Z2>" -> z[2]
          [] k = "<C>" -> c[1] [] k = "<C2>" -> c[2]
          [] k = "<M>" -> m[1] [] k = "<M2>" -> m[2]
          [] k = "<S>" -> s[1] [] k = "<S2>" -> s[2]]

\* d, d without the key <S2>, and d with a ninth key
KeyVariants(d) ==
    {d, [k \in target_keys \ {"<S2>"} |-> d[k]], Put(d, "<R>", "left")}

ParamVals ==
    UNION {KeyVariants(PairedVals(z, c, m, s)) :
              z \in PairVals, c \in PairVals, m \in FewPairVals, s \in FewPairVals}

OtherInit ==
    /\ pc = "other_start"
    /\ call_args \in {[text |-> t, param_vals |-> d] :
                         t \in Texts({" ", "other", "another"}, MaxTextLen), d \in ParamVals}
    /\ call_result = Unused
    /\ scene_struct = Unused /\ template = Unused /\ max_instances = Unused
    /\ answer_counts = Unused /\ states = Unused /\ final_states = Unused
    /\ outcome = Unused /\ num_runs = Unused
    /\ state = Unused /\ degen = Unused /\ session = Unused

\* the call other_heuristic(text, param_vals)
OtherCall ==
    /\ pc = "other_start"
    /\ call_result' = other_heuristic(call_args.text, call_args.param_vals)
    /\ pc' = "other_done"
    /\ UNCHANGED <<scene_struct, template, max_instances, answer_counts, states, final_states,
                   outcome, num_runs, state, degen, call_args, session>>

OtherNext == OtherCall

SpecOther == OtherInit /\ [][OtherNext]_vars

\* the text has the phrasing and the parameters are exactly the eight slots
OtherApplies(text, d) ==
    /\ Contains(text, OtherText) \/ Contains(text, AnotherText)
    /\ DOMAIN d = target_keys

\* both sides of the pair are non-empty and unequal
PairDiffers(d, pair) == d[pair[1]] # "" /\ d[pair[2]] # "" /\ d[pair[1]] # d[pair[2]]

\* the text with the phrasing removed
OtherRemoved(text) == Replace(Replace(text, OtherText, SpaceText), AnotherText, AText)

\* C13 as stated: other_heuristic removes the "other"/"another" phrasing
\* exactly when the text has it, the parameter names are exactly the eight
\* slots, and for every one of the four pairs both sides are bound, non-empty
\* and unequal; in every other case the text is returned unchanged.
C13_OtherAsStated ==
    pc = "other_done" =>
        call_result =
            IF /\ OtherApplies(call_args.text, call_args.param_vals)
               /\ \A i \in DOMAIN key_pairs : PairDiffers(call_args.param_vals, key_pairs[i])
            THEN OtherRemoved(call_args.text) ELSE call_args.text

\* C13: other_heuristic removes the "other"/"another" phrasing exactly when
\* the text has it, the parameter names are exactly the eight slots, and for
\* at least one of the four pairs both sides are non-empty and unequal; in
\* every other case the text is returned unchanged.
C13_OtherRemoved ==
    pc = "other_done" =>
        /\ call_result =
            IF /\ OtherApplies(call_args.text, call_args.param_vals)
               /\ \E i \in DOMAIN key_pairs : PairDiffers(call_args.param_vals, key_pairs[i])
            THEN OtherRemoved(call_args.text) ELSE call_args.text
        /\ call_result # call_args.text =>
            /\ Len(call_result) <= Len(call_args.text)
            /\ Cardinality({i \in DOMAIN call_result : call_result[i] \in {"other", "another"}})
                   < Cardinality({i \in DOMAIN call_args.text :
                                     call_args.text[i] \in {"other", "another"}})

\* the phrasing was removed though only the sizes differ
C13_Witness ==
    /\ pc = "other_done"
    /\ call_args.text = <<" ", "other", " ", "another", " ">>
    /\ call_result = <<" ", "a", " ">>
    /\ DOMAIN call_args.param_vals = target_keys
    /\ PairDiffers(call_args.param_vals, key_pairs[1])
    /\ \A i \in 2..4 : ~PairDiffers(call_args.param_vals, key_pairs[i])

\* the pattern without its closing bracket: a "[" alone is a match
MatchEndOpen(s, i) ==
    LET closes == {j \in (i + 1)..Len(s) :
                      s[j] = "]" /\ \A k \in (i + 1)..(j - 1) : s[k] # "["}
    IN  IF closes = {} THEN i ELSE CHOOSE j \in closes : \A q \in closes : q <= j

\* where a match of \[([^\[]*)\] that starts at i ends, 0 if there is none:
\* the greedy group takes every piece up to the last "]" before the next "["
MatchEnd(s, i) ==
    LET closes == {j \in (i + 1)..Len(s) :
                      s[j] = "]" /\ \A k \in (i + 1)..(j - 1) : s[k] # "["}
    IN  IF closes = {} THEN 0 ELSE CHOOSE j \in closes : \A q \in closes : q <= j

\* re.search(pat, s): the start of the leftmost match, 0 if there is none
MatchStart(s) ==
    LET starts == {i \in DOMAIN s : s[i] = "[" /\ MatchEnd(s, i) # 0}
    IN  IF starts = {} THEN 0 ELSE Min(starts)

\* the strings replace_optionals(s) can return, over the draws of
\* random.random(): each match is replaced by its group, or removed
RECURSIVE replace_optionals(_)
replace_optionals(s) ==
    LET i0 == MatchStart(s)
        i1 == MatchEnd(s, i0)
    IN  IF i0 = 0 THEN {s}
        ELSE replace_optionals(SubSeq(s, 1, i0 - 1) \o SubSeq(s, i0 + 1, i1 - 1)
                                   \o SubSeq(s, i1 + 1, Len(s)))
                 \cup replace_optionals(SubSeq(s, 1, i0 - 1) \o SubSeq(s, i1 + 1, Len(s)))

OptionalsInit ==
    /\ pc = "optionals_start"
    /\ call_args \in Texts({"[", "]", "a"}, MaxTextLen)
    /\ call_result = Unused
    /\ scene_struct = Unused /\ template = Unused /\ max_instances = Unused
    /\ answer_counts = Unused /\ states = Unused /\ final_states = Unused
    /\ outcome = Unused /\ num_runs = Unused
    /\ state = Unused /\ degen = Unused /\ session = Unused

\* the call replace_optionals(s)
OptionalsCall ==
    /\ pc = "optionals_start"
    /\ call_result' \in replace_optionals(call_args)
    /\ pc' = "optionals_done"
    /\ UNCHANGED <<scene_struct, template, max_instances, answer_counts, states, final_states,
                   outcome, num_runs, state, degen, call_args, session>>

OptionalsNext == OptionalsCall

SpecOptionals == OptionalsInit /\ [][OptionalsNext]_vars

\* text has a "[" with a "]" somewhere after it
HasSpan(text) == \E i, j \in DOMAIN text : i < j /\ text[i] = "[" /\ text[j] = "]"

\* C14: replace_optionals applied to a string that contains no [...] span
\* returns that string unchanged, and applied to its own output it changes
\* nothing, whatever the random draws.
C14_NoSpanUnchanged ==
    pc = "optionals_done" =>
        /\ ~HasSpan(call_args) => call_result = call_args
        /\ replace_optionals(call_result) = {call_result}

\* a string with both brackets and no span came back as it was
C14_Witness ==
    /\ pc = "optionals_done"
    /\ call_args = <<"]", "a", "[">>
    /\ call_result = call_args

\* a string with a span came back without its brackets, the group kept
C14_WitnessSpan ==
    /\ pc = "optionals_done"
    /\ call_args = <<"a", "[", "a", "]">>
    /\ call_result = <<"a", "a">>

-----------------------------------------------------------------------------
(* Properties of one iteration of the DFS loop.                            *)

\* the state st, evaluated on scene, is complete, not invalid, and satisfies
\* every constraint of the template
CompleteValid(st, scene) ==
    /\ st.next_template_node = Len(template.nodes)
    /\ Last(answer_question(st.nodes, scene)).t # "invalid"
    /\ \A c \in DOMAIN template.constraints :
           ConstraintHolds(template.constraints[c], st, template, scene)

\* count[a] <= 1.1 * (second-largest count) and
\* count[a] <= 5 * max(5, sorted_counts[len / 2])
WithinBalance(counts, a) ==
    LET sorted_counts == answer_counts_sorted(counts)
        middle == At(sorted_counts, Len(sorted_counts) \div 2)
    IN  /\ 10 * counts[a] <= 11 * sorted_counts[Len(sorted_counts) - 1]
        /\ counts[a] <= 5 * (IF middle > 5 THEN middle ELSE 5)

\* C15: a complete, valid, constraint-satisfying state with answer a is
\* accepted if and only if count[a] <= 1.1 * (second-largest count),
\* count[a] <= 5 * max(5, sorted_counts[len/2]) and, when the template has a
\* raw relate node, the program is not degenerate; acceptance increases
\* count[a] by exactly one, leaves every other count unchanged and appends
\* exactly that state to the accepted list.
C15_AcceptIff ==
    [][(pc = "dfs_body" /\ CompleteValid(state', scene_struct)) =>
          LET a == Last(answer_question(state'.nodes, scene_struct))
          IN  IF WithinBalance(answer_counts, a) /\ (has_relate(template) => degen' # {TRUE})
              THEN /\ answer_counts' = [answer_counts EXCEPT ![a] = @ + 1]
                   /\ final_states' = Append(final_states, WithAnswer(state', a))
              ELSE /\ answer_counts' = answer_counts
                   /\ final_states' = final_states]_vars

\* a program with a raw relate node was found not degenerate and accepted
\* after an earlier acceptance in the window
C15_Witness ==
    /\ InDfs /\ template = TmplRawRelate /\ outcome = "accept"
    /\ degen = {FALSE}
    /\ \E a \in DOMAIN answer_counts : answer_counts[a] >= 1 /\ a # Last(final_states).answer

\* a complete valid state was found degenerate, and one was skipped by the
\* heuristics
C15_WitnessDegenerate ==
    InDfs /\ template = TmplRawRelate /\ outcome = "degenerate" /\ degen = {TRUE}
C15_WitnessRejected ==
    InDfs /\ outcome = "rejected" /\ CompleteValid(state, scene_struct)

-----------------------------------------------------------------------------
(* Properties of the synthesized filter keys.                              *)

\* the loop body pops a synthesized key of the last group
PopsSynthesized ==
    /\ pc = "dfs_body"
    /\ ~Top.root
    /\ Top.gens > 0
    /\ LET after == AfterPop([gen |-> TRUE, key |-> None])
       IN  /\ Len(states') >= Len(after)
           /\ SubSeq(states', 1, Len(after)) = after

\* the objects the filter chain of st selects, st being a successor of the
\* expansion of a filter, filter_count or filter_exist node: the input of the
\* trailing node, or the output of the chain when there is none
Selected(st, scene) ==
    LET outputs == answer_question(st.nodes, scene)
        type == At(template.nodes, st.next_template_node - 1).type
    IN  IF extra_type(type) = None THEN Last(outputs).v
        ELSE At(outputs, Last(st.nodes).inputs[1]).v

\* C16: when filter, filter_count or filter_exist is expanded, every synthesized
\* "empty" key, once materialised as the chain of filter nodes of its successor
\* state, selects no object of the input set and differs from every key that
\* was already in the candidate map.
C16_SynthesizedEmpty ==
    [][PopsSynthesized =>
          /\ Selected(state', scene_struct) = <<>>
          /\ \A k \in Top.keys : Successor(template, Top.parent, k) # state']_vars

\* the loop body expands a filter, filter_count or filter_exist node
ExpandsFilter ==
    /\ pc = "dfs_body"
    /\ outcome' = "expand"
    /\ At(template.nodes, state'.next_template_node).type \in {"filter", "filter_count", "filter_exist"}

\* the keys of the candidate map of such a node: every key that matches an
\* object of the scene, without the null key for filter
CandidateKeys(type, scene) ==
    {k \in attr_vals : /\ Matching(scene, k) # {}
                       /\ type = "filter" => k # <<None, None, None, None>>}

\* the number of synthesized keys the node should get over the input set
ExpectedEmpty(type, input, scene) ==
    Cardinality({k \in CandidateKeys(type, scene) :
                    LET n == Cardinality(Matching(scene, k) \cap Range(input))
                    IN  IF type = "filter_exist" THEN n >= 1 ELSE n = 1})

\* the number of synthesized keys among the successors the step pushed
PushedGens ==
    IF Len(states') > 0 /\ ~states'[Len(states')].root /\ states'[Len(states')].parent = state'
    THEN states'[Len(states')].gens ELSE 0

\* C17: the number of synthesized empty keys is the number of candidate keys
\* that map to exactly one object for filter and filter_count, and the number
\* of candidate keys that map to a non-empty set for filter_exist, whatever
\* the input set, a proper subset of the scene included.
C17_EmptyKeyCount ==
    [][ExpandsFilter =>
          LET type == At(template.nodes, state'.next_template_node).type
              input == Last(answer_question(state'.nodes, scene_struct)).v
          IN  PushedGens = ExpectedEmpty(type, input, scene_struct)]_vars

\* the same when the input set is the whole scene or the node is not filter_exist
C17_EmptyKeyCountWholeScene ==
    [][ExpandsFilter =>
          LET type == At(template.nodes, state'.next_template_node).type
              input == Last(answer_question(state'.nodes, scene_struct)).v
          IN  (type # "filter_exist" \/ Range(input) = Idx(scene_struct.objects)) =>
                  PushedGens = ExpectedEmpty(type, input, scene_struct)]_vars

-----------------------------------------------------------------------------
(* Properties of the mapping find_relate_filter_options returns.           *)

\* the objects related to the anchor by relationship p[1] that match key p[2]
PairIntersection(scene, object_idx, p) ==
    Matching(scene, p[2]) \cap Range(At(scene.relationships[p[1]], object_idx))

\* the intersection of pair p passes the unique / include_zero flags
PairPasses(scene, args, p) ==
    LET n == Cardinality(PairIntersection(scene, args.object_idx, p))
    IN  (args.unique => n = 1) /\ (~args.include_zero => n # 0)

\* list holds the elements of set S, each once, in ascending order
AscendingListOf(list, S) ==
    /\ Range(list) = S
    /\ \A i \in 1..(Len(list) - 1) : list[i] < list[i + 1]

\* C18: the mapping find_relate_filter_options returns contains every
\* (relationship, filter-key) pair whose intersection differs from the key's
\* full matching set and passes the flags, each mapped to the ascending list
\* of that intersection; every other entry is a trivial pair that passes the
\* same flags.
C18_RelateOptions ==
    (pc = "relate_done" /\ call_result.error = None) =>
        LET options == call_result.value
            pairs == (DOMAIN scene_struct.relationships) \X attr_vals
            nontrivial == {p \in pairs :
                              /\ PairIntersection(scene_struct, call_args.object_idx, p)
                                     # Matching(scene_struct, p[2])
                              /\ PairPasses(scene_struct, call_args, p)}
        IN  /\ nontrivial \subseteq DOMAIN options
            /\ \A p \in nontrivial :
                   AscendingListOf(options[p],
                       PairIntersection(scene_struct, call_args.object_idx, p))
            /\ \A p \in (DOMAIN options) \ nontrivial :
                   /\ p \in pairs
                   /\ PairIntersection(scene_struct, call_args.object_idx, p)
                          = Matching(scene_struct, p[2])
                   /\ PairPasses(scene_struct, call_args, p)

\* a returned mapping with a nontrivial entry of two objects
C18_Witness ==
    /\ pc = "relate_done"
    /\ call_result.error = None
    /\ \E p \in DOMAIN call_result.value :
           /\ call_result.value[p] = <<0, 1>>
           /\ Matching(scene_struct, p[2]) = {0, 1, 2}

\* a returned mapping with a nontrivial and a trivial entry, unique being set
C18_WitnessTrivial ==
    /\ pc = "relate_done"
    /\ call_result.error = None
    /\ call_args.unique
    /\ \E p, q \in DOMAIN call_result.value :
           /\ TrivialPair(scene_struct, call_args.object_idx, p)
           /\ ~TrivialPair(scene_struct, call_args.object_idx, q)

-----------------------------------------------------------------------------
(* Frame and shape properties of the loop body.                            *)

\* constraint c is violated by the values and outputs state st has so far
ConstraintBroken(c, st, scene) ==
    CASE c.type = "NEQ" ->
            /\ c.params[1] \in DOMAIN st.vals
            /\ c.params[2] \in DOMAIN st.vals
            /\ st.vals[c.params[1]] # st.vals[c.params[2]]
      [] c.type = "NULL" ->
            /\ c.params[1] \in DOMAIN st.vals
            /\ st.vals[c.params[1]] # IF template.params[c.params[1]] = "Shape" THEN "thing" ELSE ""
      [] c.type = "OUT_NEQ" ->
            /\ c.params[1] \in DOMAIN st.input_map
            /\ c.params[2] \in DOMAIN st.input_map
            /\ LET outputs == answer_question(st.nodes, scene)
               IN  OutEq(At(outputs, st.input_map[c.params[1]]),
                         At(outputs, st.input_map[c.params[2]]))

\* the loop body discards st: its answer is invalid, a constraint is violated,
\* a rejection threshold is exceeded or it is found degenerate
Discarded(st) ==
    LET a == Last(answer_question(st.nodes, scene_struct))
    IN  \/ a.t = "invalid"
        \/ \E c \in DOMAIN template.constraints :
               ConstraintBroken(template.constraints[c], st, scene_struct)
        \/ /\ st.next_template_node = Len(template.nodes)
           /\ (~WithinBalance(answer_counts, a) \/ (has_relate(template) /\ degen' = {TRUE}))

\* the stack after the step is the stack before it without the state popped
PoppedOnly ==
    LET n == Len(states)
        rest == SubSeq(states, 1, n - 1)
    IN  \/ /\ states' = rest
           /\ Cardinality(Top.keys) + Top.gens = 1
        \/ /\ Len(states') = n
           /\ SubSeq(states', 1, n - 1) = rest
           /\ states'[n].root = Top.root
           /\ states'[n].parent = Top.parent
           /\ \/ /\ states'[n].gens = Top.gens
                 /\ \E k \in Top.keys :
                        /\ states'[n].keys = Top.keys \ {k}
                        /\ StateOf(Top, [gen |-> FALSE, key |-> k]) = state'
              \/ /\ Top.gens > 0
                 /\ states'[n].gens = Top.gens - 1
                 /\ states'[n].keys = Top.keys

\* C19: processing a popped state that is discarded (invalid answer, violated
\* constraint, rejection threshold exceeded, degeneracy) raises no error,
\* pushes no successor and leaves the answer counts, the accepted list and
\* all other states on the stack unchanged; the loop goes on to its test.
C19_DiscardFrame ==
    [][(pc = "dfs_body" /\ Discarded(state')) =>
          /\ answer_counts' = answer_counts
          /\ final_states' = final_states
          /\ PoppedOnly
          /\ pc' = "dfs"]_vars

\* a state was discarded for a violated constraint while others wait on the stack
C19_Witness ==
    /\ InDfs
    /\ outcome = "constraint"
    /\ Len(states) >= 1
    /\ Cardinality(Top.keys) >= 1

\* states were discarded for an invalid answer and by the rejection thresholds
C19_WitnessInvalid == InDfs /\ outcome = "invalid" /\ Len(states) >= 2
C19_WitnessThreshold == InDfs /\ outcome = "rejected" /\ Len(states) >= 1

\* state s is a successor of the expansion of template node
\* parent.next_template_node of state parent
ExtendsParent(s, parent) ==
    /\ s.next_template_node = parent.next_template_node + 1
    /\ Len(s.nodes) >= Len(parent.nodes)
    /\ SubSeq(s.nodes, 1, Len(parent.nodes)) = parent.nodes
    /\ parent.next_template_node \notin DOMAIN parent.input_map
    /\ DOMAIN s.input_map = DOMAIN parent.input_map \cup {parent.next_template_node}
    /\ \A i \in DOMAIN parent.input_map : s.input_map[i] = parent.input_map[i]

\* C20: every state on the DFS stack has 1 <= next_template_node <=
\* len(template nodes); a state is expanded only when its next_template_node
\* is below len(template nodes); every successor pushed has next_template_node
\* one greater than its parent, a node list that has the parent's as a prefix
\* and the parent's input map with one more entry, for the node expanded.
C20_StackShape ==
    InDfs =>
        /\ \A s \in StackStates :
               1 <= s.next_template_node /\ s.next_template_node <= Len(template.nodes)
        /\ outcome = "expand" => state.next_template_node < Len(template.nodes)
        /\ \A i \in DOMAIN states :
               ~states[i].root =>
                   /\ states[i].parent.next_template_node < Len(template.nodes)
                   /\ \A s \in GroupStates(states[i]) : ExtendsParent(s, states[i].parent)

\* the successors of a state that was itself pushed as a successor are on the
\* stack, above the rest of the group it came from
C20_Witness ==
    /\ InDfs
    /\ outcome = "expand"
    /\ Len(states) >= 2
    /\ Top.parent = state
    /\ state.next_template_node >= 2
    /\ Top.gens > 0

-----------------------------------------------------------------------------
(* Properties of the errors instantiate_templates_dfs ends in.             *)

\* the template declares a constraint of a type that is not recognized
BadConstraint(tmpl) ==
    \E c \in DOMAIN tmpl.constraints : tmpl.constraints[c].type \notin {"NEQ", "NULL", "OUT_NEQ"}

\* the template has a node, not a composite one, with a side-input list that
\* does not have exactly one entry
BadSideInputs(tmpl) ==
    \E n \in DOMAIN tmpl.nodes :
        /\ tmpl.nodes[n].type \notin special_nodes
        /\ tmpl.nodes[n].has_side_inputs
        /\ Len(tmpl.nodes[n].side_inputs) # 1

\* C21: for a template that declares a constraint of unrecognized type, or a
\* non-composite node at any position whose side-input list does not have
\* exactly one entry, instantiate_templates_dfs never returns a result: it
\* ends in a fatal error, whatever the scene.
C21_MalformedFatal ==
    (BadConstraint(template) \/ BadSideInputs(template)) => pc # "dfs_done"

\* the same for the templates with a constraint of unrecognized type alone
C21_BadConstraintFatal == BadConstraint(template) => pc # "dfs_done"

\* C27: the terminal check of a complete valid state ends in the acceptance
\* or the discard of that state and never in an error, for every answer-count
\* table, one with a single answer value and one without an entry for the
\* computed answer included.
C27_TerminalNoError ==
    ~(/\ pc = "dfs_error"
      /\ state.next_template_node = Len(template.nodes)
      /\ outcome \in {"KeyError", "IndexError"})

\* the same for a table of at least two values that holds every colour of the scene
C27_TerminalNoErrorFullTable ==
    (/\ pc = "dfs_error"
     /\ Cardinality(DOMAIN answer_counts) >= 2
     /\ \A i \in Idx(scene_struct.objects) :
            StrOut(At(scene_struct.objects, i).color) \in DOMAIN answer_counts)
        => outcome \notin {"KeyError", "IndexError"}

-----------------------------------------------------------------------------
(* The session driver: main.                                               *)

\* bounds of the sessions run: the scenes processed, the templates loaded,
\* and the values of --reset_counts_every and --templates_per_image
MaxScenes == 3
NumTemplates == 3
MaxEvery == 2
MaxPerImage == 2

\* the keys of templates, in the order of the dict
TemplateKeys == [k \in 1..NumTemplates |-> k]

\* a scene of three objects and a scene of two, not in the order of their x
SessionSceneThree ==
    Scene(<<Object("large", "red", "rubber", "cube", 1),
            Object("large", "gray", "rubber", "cube", 0),
            Object("large", "cyan", "rubber", "cube", 2)>>, EmptyDict)
SessionSceneTwo ==
    Scene(<<Object("large", "red", "rubber", "cube", 1),
            Object("large", "gray", "rubber", "cube", 0)>>, EmptyDict)

\* the scene lists of at most n scenes
RECURSIVE SceneLists(_)
SceneLists(n) ==
    IF n = 0 THEN {<<>>}
    ELSE LET shorter == SceneLists(n - 1)
         IN  shorter \cup {Append(l, sc) : l \in {x \in shorter : Len(x) = n - 1},
                                          sc \in {SessionSceneThree, SessionSceneTwo}}

\* get_questions_and_answers_behind_the_scenes(scene_struct): what it returns
\* (valid_questions, query_atom_texts, answers) or the error it raises
get_questions_and_answers_behind_the_scenes(scene) ==
    LET d == get_questions_and_answers_delete(scene)
        a == get_questions_and_answers_append(scene)
        r == get_questions_and_answers_reverse(scene)
        o == get_questions_and_answers_sort(scene)
    IN  IF d.error # None THEN d
        ELSE IF a.error # None THEN a
        ELSE IF r.error # None THEN r
        ELSE IF o.error # None THEN o
        ELSE LET valid_questions == d.value.valid_questions \o a.value.valid_questions
                                        \o r.value.valid_questions \o o.value.valid_questions
                 answers == d.value.answers \o a.value.answers
                                \o r.value.answers \o o.value.answers
             IN  IF Len(valid_questions) # Len(answers) THEN Raised("AssertionError")
                 ELSE Returned([valid_questions |-> valid_questions,
                                query_atom_texts |-> valid_questions,
                                answers |-> answers])

\* a % b of Python for a >= 0 and b # 0: the result has the sign of b
PyMod(a, b) == IF b > 0 THEN a % b ELSE -((-a) % (-b))

\* reset_counts(): template_counts and template_answer_counts, all zero
reset_counts ==
    [template_counts |-> [k \in Range(TemplateKeys) |-> 0],
     template_answer_counts |-> [k \in Range(TemplateKeys) |-> [a \in BoolAnswers |-> 0]]]

\* items with key put after the last element whose count is not larger
RECURSIVE InsertByCount(_, _, _)
InsertByCount(items, key, template_counts) ==
    IF items = <<>> THEN <<key>>
    ELSE IF template_counts[key] < template_counts[Head(items)] THEN <<key>> \o items
    ELSE <<Head(items)>> \o InsertByCount(Tail(items), key, template_counts)

\* sorted(templates_items, key=lambda x: template_counts[x[0][:2]])
RECURSIVE SortByCount(_, _)
SortByCount(items, template_counts) ==
    IF items = <<>> THEN <<>>
    ELSE InsertByCount(SortByCount(SubSeq(items, 1, Len(items) - 1), template_counts),
                       items[Len(items)], template_counts)

(* main after the scenes and the templates were read and reset_counts was  *)
(* called once.                                                            *)
MainInit ==
    /\ pc = "main_scene"
    /\ session \in {[reset_counts_every |-> e, templates_per_image |-> p, all_scenes |-> l,
                     i |-> 0, scene_count |-> 0,
                     template_counts |-> reset_counts.template_counts,
                     template_answer_counts |-> reset_counts.template_answer_counts,
                     templates_items |-> <<>>, next_item |-> 0, num_instantiated |-> 0,
                     num_questions |-> 0, error |-> None] :
                        e \in (-MaxEvery)..MaxEvery, p \in 0..MaxPerImage,
                        l \in SceneLists(MaxScenes)}
    /\ scene_struct = Unused
    /\ call_args = Unused /\ call_result = Unused
    /\ template = Unused /\ max_instances = Unused /\ answer_counts = Unused
    /\ states = Unused /\ final_states = Unused /\ outcome = Unused /\ num_runs = Unused
    /\ state = Unused /\ degen = Unused

\* the head of the loop over all_scenes and the body up to the loop over
\* templates_items: the counts are reset when due, and the templates sorted
SceneStart ==
    /\ pc = "main_scene"
    /\ session.i < Len(session.all_scenes)
    /\ IF session.reset_counts_every = 0
       THEN /\ session' = [session EXCEPT !.error = "ZeroDivisionError"]
            /\ pc' = "main_error"
            /\ scene_struct' = At(session.all_scenes, session.i)
       ELSE LET reset == PyMod(session.scene_count, session.reset_counts_every) = 0
                template_counts == IF reset THEN reset_counts.template_counts
                                   ELSE session.template_counts
                template_answer_counts == IF reset THEN reset_counts.template_answer_counts
                                          ELSE session.template_answer_counts
            IN  /\ session' = [session EXCEPT
                                  !.template_counts = template_counts,
                                  !.template_answer_counts = template_answer_counts,
                                  !.scene_count = @ + 1,
                                  !.templates_items = SortByCount(TemplateKeys, template_counts),
                                  !.next_item = 0,
                                  !.num_instantiated = 0]
                /\ pc' = "main_template"
                /\ scene_struct' = At(session.all_scenes, session.i)
    /\ UNCHANGED <<template, max_instances, answer_counts, states, final_states,
                   outcome, num_runs, state, degen, call_args, call_result>>

\* one iteration of the loop over templates_items
TryTemplate ==
    /\ pc = "main_template"
    /\ session.next_item < Len(session.templates_items)
    /\ LET key == At(session.templates_items, session.next_item)
           result == get_questions_and_answers_behind_the_scenes(scene_struct)
       IN  /\ scene_struct' = [scene_struct EXCEPT !.objects = SortByX(@)]
           /\ IF result.error # None
              THEN /\ session' = [session EXCEPT !.error = result.error]
                   /\ pc' = "main_error"
              ELSE LET ts == result.value.valid_questions
                       got == Len(ts) > 0
                       num_instantiated == session.num_instantiated + (IF got THEN 1 ELSE 0)
                       done == num_instantiated >= session.templates_per_image
                   IN  /\ session' = [session EXCEPT
                                         !.num_questions = @ + Len(ts),
                                         !.num_instantiated = num_instantiated,
                                         !.template_counts[key] = IF got THEN @ + 1 ELSE @,
                                         !.next_item = @ + 1,
                                         !.i = IF done \/ session.next_item + 1
                                                           = Len(session.templates_items)
                                               THEN @ + 1 ELSE @]
                       /\ pc' = IF done \/ session.next_item + 1 = Len(session.templates_items)
                                THEN "main_scene" ELSE "main_template"
    /\ UNCHANGED <<template, max_instances, answer_counts, states, final_states,
                   outcome, num_runs, state, degen, call_args, call_result>>

\* the loop over all_scenes ends and the questions are written
WriteOutput ==
    /\ pc = "main_scene"
    /\ session.i = Len(session.all_scenes)
    /\ pc' = "main_done"
    /\ UNCHANGED <<scene_struct, template, max_instances, answer_counts, states, final_states,
                   outcome, num_runs, state, degen, call_args, call_result, session>>

MainNext ==
    \/ SceneStart
    \/ TryTemplate
    \/ WriteOutput

SpecMain == MainInit /\ [][MainNext]_vars

-----------------------------------------------------------------------------
(* Properties of the session driver.                                       *)

\* i is a multiple of n
IsMultiple(i, n) == \E k \in (-i)..i : i = k * n

\* the loop over all_scenes is about to process a scene
AtScene == pc = "main_scene" /\ session.i < Len(session.all_scenes)

\* both tables of the step's end hold zeros only
TablesZeroed ==
    /\ \A k \in DOMAIN session.template_counts' : session.template_counts'[k] = 0
    /\ \A k \in DOMAIN session.template_answer_counts' :
           \A a \in DOMAIN session.template_answer_counts'[k] :
               session.template_answer_counts'[k][a] = 0

\* both tables are left as they were
TablesKept ==
    /\ session.template_counts' = session.template_counts
    /\ session.template_answer_counts' = session.template_answer_counts

\* no count of either table decreases
TablesGrow ==
    /\ \A k \in DOMAIN session.template_counts :
           session.template_counts'[k] >= session.template_counts[k]
    /\ \A k \in DOMAIN session.template_answer_counts :
           \A a \in DOMAIN session.template_answer_counts[k] :
               session.template_answer_counts'[k][a] >= session.template_answer_counts[k][a]

\* the step starts the templates of the scene
StartsTemplates == pc' = "main_template" /\ session.scene_count' = session.i + 1

\* C22: before each scene whose 0-based position is a multiple of
\* reset_counts_every the driver resets both tables to zeros and goes on to
\* the templates of the scene, before any other scene it leaves the tables as
\* they are, and no step between two scene starts lowers a count, for every
\* value of reset_counts_every.
C22_ResetCadence ==
    [][/\ AtScene /\ IsMultiple(session.i, session.reset_counts_every)
           => StartsTemplates /\ TablesZeroed
       /\ AtScene /\ ~IsMultiple(session.i, session.reset_counts_every)
           => StartsTemplates /\ TablesKept
       /\ pc = "main_template" => TablesGrow]_vars

\* C22 for the values of reset_counts_every other than zero
C22_ResetCadenceNonZero ==
    [][session.reset_counts_every # 0 =>
          /\ AtScene /\ IsMultiple(session.i, session.reset_counts_every)
                => StartsTemplates /\ TablesZeroed
          /\ AtScene /\ ~IsMultiple(session.i, session.reset_counts_every)
                => StartsTemplates /\ TablesKept
          /\ pc = "main_template" => TablesGrow]_vars

\* a session with reset_counts_every = 0 ends in ZeroDivisionError before
\* its first scene
C22_Witness ==
    /\ pc = "main_error"
    /\ session.reset_counts_every = 0
    /\ session.i = 0
    /\ session.error = "ZeroDivisionError"

\* a second scene is reached with counts above zero and no reset due
C22_WitnessKept ==
    /\ pc = "main_scene"
    /\ session.i = 1
    /\ session.i < Len(session.all_scenes)
    /\ session.reset_counts_every = 2
    /\ \E k \in DOMAIN session.template_counts : session.template_counts[k] > 0

\* templates_items is in ascending order of the usage counts the scene
\* started with
AscendingByCount(items, counts) ==
    \A a, b \in 1..Len(items) : a < b => counts[items[a]] <= counts[items[b]]

\* C23: the templates of a scene are tried in ascending order of their usage
\* count, the number of templates that contributed questions to the scene
\* never exceeds templates_per_image, for every value including 0, and a
\* template that contributes has its usage count raised by exactly one.
C23_PerImageCap ==
    [][/\ AtScene /\ pc' = "main_template"
           => AscendingByCount(session.templates_items', session.template_counts')
       /\ pc = "main_template" /\ pc' # "main_error"
           => /\ session.num_instantiated' <= session.templates_per_image
              /\ session.num_instantiated' >= session.templates_per_image
                    => pc' = "main_scene"
              /\ LET key == At(session.templates_items, session.next_item)
                 IN  \A k \in DOMAIN session.template_counts :
                        session.template_counts'[k] = session.template_counts[k]
                            + (IF k = key /\ session.num_instantiated'
                                               = session.num_instantiated + 1
                               THEN 1 ELSE 0)]_vars

\* C23 for the values of templates_per_image from one on
C23_PerImageCapPositive ==
    [][session.templates_per_image >= 1 =>
          /\ AtScene /\ pc' = "main_template"
                => AscendingByCount(session.templates_items', session.template_counts')
          /\ pc = "main_template" /\ pc' # "main_error"
                => /\ session.num_instantiated' <= session.templates_per_image
                   /\ session.num_instantiated' >= session.templates_per_image
                         => pc' = "main_scene"
                   /\ LET key == At(session.templates_items, session.next_item)
                      IN  \A k \in DOMAIN session.template_counts :
                             session.template_counts'[k] = session.template_counts[k]
                                 + (IF k = key /\ session.num_instantiated'
                                                    = session.num_instantiated + 1
                                    THEN 1 ELSE 0)]_vars

\* with templates_per_image = 0 a template contributed to the scene
C23_Witness ==
    /\ session.templates_per_image = 0
    /\ session.num_instantiated = 1
    /\ \E k \in DOMAIN session.template_counts : session.template_counts[k] = 1

-----------------------------------------------------------------------------
(* Properties of the spans replace_optionals resolves.                     *)

\* where the span that opens at i closes: the first "]" after i with no "["
\* before it, 0 if there is none
SpanEnd(s, i) ==
    LET closes == {j \in (i + 1)..Len(s) :
                      s[j] = "]" /\ \A k \in (i + 1)..(j - 1) : s[k] # "["}
    IN  IF closes = {} THEN 0 ELSE Min(closes)

\* the leftmost "[" that opens a span with no "[" inside, 0 if there is none
SpanStart(s) ==
    LET starts == {i \in DOMAIN s : s[i] = "[" /\ SpanEnd(s, i) # 0}
    IN  IF starts = {} THEN 0 ELSE Min(starts)

\* the strings left when each span, leftmost first and innermost before an
\* enclosing one, is replaced by its contents or by nothing
RECURSIVE SpanResults(_)
SpanResults(s) ==
    LET i0 == SpanStart(s)
        i1 == SpanEnd(s, i0)
    IN  IF i0 = 0 THEN {s}
        ELSE SpanResults(SubSeq(s, 1, i0 - 1) \o SubSeq(s, i0 + 1, i1 - 1)
                             \o SubSeq(s, i1 + 1, Len(s)))
                 \cup SpanResults(SubSeq(s, 1, i0 - 1) \o SubSeq(s, i1 + 1, Len(s)))

\* text has two "]" with no "[" between them
ClosesTwice(text) ==
    \E i, j \in DOMAIN text :
        /\ i < j /\ text[i] = "]" /\ text[j] = "]"
        /\ \A k \in (i + 1)..(j - 1) : text[k] # "["

\* C24: replace_optionals returns on every input string, its result has no
\* [...] span left, and the result is the input with each span, leftmost
\* first and innermost before an enclosing span, replaced by exactly its
\* bracket contents or by nothing, the text outside the brackets unchanged.
C24_SpansResolved ==
    /\ pc = "optionals_start" => replace_optionals(call_args) # {}
    /\ pc = "optionals_done" =>
           /\ ~HasSpan(call_result)
           /\ call_result \in SpanResults(call_args)

\* C24 without the contents-or-nothing part: replace_optionals returns on
\* every input string and its result has no [...] span left
C24_NoSpanLeft ==
    /\ pc = "optionals_start" => replace_optionals(call_args) # {}
    /\ pc = "optionals_done" => ~HasSpan(call_result)

\* C24 on the strings where no "]" follows another with no "[" between
C24_SpansResolvedFlat ==
    pc = "optionals_done" /\ ~ClosesTwice(call_args) =>
        /\ ~HasSpan(call_result)
        /\ call_result \in SpanResults(call_args)

\* the inner span of a nested pair was dropped with the closing bracket of
\* the enclosing one
C24_Witness ==
    /\ pc = "optionals_done"
    /\ call_args = <<"[", "[", "a", "]", "]">>
    /\ call_result = <<"[">>

-----------------------------------------------------------------------------
(* Properties of the nodes a composite node is expanded into.              *)

\* st is the successor built for a composite node
FromComposite(st) ==
    /\ st.next_template_node >= 2
    /\ At(template.nodes, st.next_template_node - 1).type \in special_nodes

\* the concrete node the declared input of the composite node st was built
\* for maps to
MappedInput(st) ==
    st.input_map[At(template.nodes, st.next_template_node - 1).inputs[1]]

\* the positions in st.nodes of the nodes the composite node was expanded
\* into: they follow the last node of the template node before it
FirstNew(st) == st.input_map[st.next_template_node - 2] + 1
LastNew(st) == st.input_map[st.next_template_node - 1]

\* the last node of the materialised chain, the trailing node left out; less
\* than FirstNew(st) when the chain is empty
LastOfChain(st) ==
    IF extra_type(At(template.nodes, st.next_template_node - 1).type) # None
    THEN LastNew(st) - 1 ELSE LastNew(st)

\* the first chain node takes the mapped input, and the trailing node takes
\* the last chain node, or the mapped input when the chain is empty
InputsWired(st) ==
    /\ LastOfChain(st) >= FirstNew(st)
          => At(st.nodes, FirstNew(st)).inputs = <<MappedInput(st)>>
    /\ extra_type(At(template.nodes, st.next_template_node - 1).type) # None
          => At(st.nodes, LastNew(st)).inputs =
                 <<IF LastOfChain(st) >= FirstNew(st) THEN LastOfChain(st)
                   ELSE MappedInput(st)>>

\* the step expands the popped state into a composite node
ExpandsComposite ==
    /\ pc = "dfs_body"
    /\ outcome' = "expand"
    /\ At(template.nodes, state'.next_template_node).type \in special_nodes

\* the output of the concrete node the declared input of the node expanded
\* maps to
MappedOutput ==
    At(answer_question(state'.nodes, scene_struct),
       state'.input_map[At(template.nodes, state'.next_template_node).inputs[1]])

\* the candidate keys the step pushed
PushedKeys ==
    IF Len(states') > 0 /\ ~states'[Len(states')].root /\ states'[Len(states')].parent = state'
    THEN states'[Len(states')].keys ELSE {}

\* the sets of candidate keys that can be computed from output, over the
\* draws of find_relate_filter_options
KeysFrom(type, output) ==
    IF StartsWithRelate(type)
    THEN {r.keys : r \in RelateFamilyOptions(type, output, scene_struct)}
    ELSE {FilterFamilyOptions(type, output, scene_struct).keys}

\* C25: when a composite node is expanded, the candidate keys are those
\* computed from the output of the concrete node its declared input maps to,
\* and in every successor built the first node of the chain takes that node
\* as input and the trailing unique, count or exist node takes the last node
\* of the chain, or the mapped input when the chain is empty, also when the
\* declared input is not the most recently materialised node.
C25_CompositeInputs ==
    [][/\ ExpandsComposite
          => PushedKeys \in KeysFrom(At(template.nodes, state'.next_template_node).type,
                                     MappedOutput)
       /\ pc = "dfs_body" /\ FromComposite(state') => InputsWired(state')]_vars

\* C25 for the composite nodes whose declared input is the most recently
\* materialised node
C25_AfterLatest ==
    [][/\ ExpandsComposite
           /\ state'.input_map[At(template.nodes, state'.next_template_node).inputs[1]]
                  = Len(state'.nodes) - 1
          => PushedKeys \in KeysFrom(At(template.nodes, state'.next_template_node).type,
                                     MappedOutput)
       /\ pc = "dfs_body" /\ FromComposite(state')
           /\ MappedInput(state') = FirstNew(state') - 1
          => InputsWired(state')]_vars

\* a trailing unique node was given the node of the earlier branch as input
C25_Witness ==
    /\ pc \in {"dfs", "dfs_done"}
    /\ outcome # "none"
    /\ template = TmplBranchUnique
    /\ FromComposite(state)
    /\ MappedInput(state) = 0
    /\ FirstNew(state) = 2
    /\ LastNew(state) = 3
    /\ At(state.nodes, 3).inputs = <<1>>

-----------------------------------------------------------------------------
(* Calls of the two lookups and of the generators on one scene.            *)

\* scene_struct["relationships"] of objs: for each object the ids of the
\* objects to its left and to its right
RelationsByX(objs) ==
    [left  |-> [i \in DOMAIN objs |-> sorted({j - 1 : j \in {q \in DOMAIN objs : objs[q].x < objs[i].x}})],
     right |-> [i \in DOMAIN objs |-> sorted({j - 1 : j \in {q \in DOMAIN objs : objs[q].x > objs[i].x}})]]

\* a scene as it is read from the scene file, before any call on it
CacheInit ==
    /\ pc = "calls"
    /\ scene_struct \in {Scene(objs, RelationsByX(objs)) :
                            objs \in {l \in GenObjectLists(MaxObjects) :
                                         \A i \in DOMAIN l : l[i].color \in Range(Types.Color)}}
    /\ call_args = Unused /\ call_result = Unused
    /\ template = Unused /\ max_instances = Unused /\ answer_counts = Unused
    /\ states = Unused /\ final_states = Unused /\ outcome = Unused /\ num_runs = Unused
    /\ state = Unused /\ degen = Unused /\ session = Unused

\* a call find_filter_options(object_idxs, scene_struct, metadata)
FilterOptionsCall ==
    /\ pc = "calls"
    /\ \E object_idxs \in SUBSET Idx(scene_struct.objects) :
        /\ call_args' = [fn |-> "find_filter_options", arg |-> sorted(object_idxs)]
        /\ call_result' = Returned(find_filter_options(sorted(object_idxs), scene_struct))
    /\ scene_struct' = WithFilterOptions(scene_struct)
    /\ UNCHANGED <<pc, template, max_instances, answer_counts, states, final_states,
                   outcome, num_runs, state, degen, session>>

\* a call find_relate_filter_options(object_idx, scene_struct, metadata,
\* unique, include_zero)
RelateOptionsCall ==
    /\ pc = "calls"
    /\ \E object_idx \in Idx(scene_struct.objects), unique \in BOOLEAN, include_zero \in BOOLEAN :
        /\ call_args' = [fn |-> "find_relate_filter_options",
                         arg |-> <<object_idx, unique, include_zero>>]
        /\ call_result' \in find_relate_filter_options(object_idx, scene_struct, unique,
                                 include_zero, TrivialFracNum, TrivialFracDen)
    /\ scene_struct' = WithFilterOptions(scene_struct)
    /\ UNCHANGED <<pc, template, max_instances, answer_counts, states, final_states,
                   outcome, num_runs, state, degen, session>>

\* a call of one of the get_questions_and_answers_* generators
GeneratorCall ==
    /\ pc = "calls"
    /\ \E task \in {"delete", "append", "reverse", "sort"} :
        /\ call_args' = [fn |-> "get_questions_and_answers", arg |-> task]
        /\ call_result' = CASE task = "delete" -> get_questions_and_answers_delete(scene_struct)
                            [] task = "append" -> get_questions_and_answers_append(scene_struct)
                            [] task = "reverse" -> get_questions_and_answers_reverse(scene_struct)
                            [] task = "sort" -> get_questions_and_answers_sort(scene_struct)
    /\ scene_struct' = [scene_struct EXCEPT !.objects = SortByX(@)]
    /\ UNCHANGED <<pc, template, max_instances, answer_counts, states, final_states,
                   outcome, num_runs, state, degen, session>>

CacheNext ==
    \/ FilterOptionsCall
    \/ RelateOptionsCall
    \/ GeneratorCall

SpecCache == CacheInit /\ [][CacheNext]_vars

\* every object id stored under a key of the cached index denotes an object
\* of scene["objects"] whose attributes match the key
IndexConsistent(scene) ==
    scene.has_filter_options =>
        \A k \in DOMAIN scene.filter_options :
            \A i \in scene.filter_options[k] :
                i \in Idx(scene.objects) /\ KeyMatches(At(scene.objects, i), k)

\* C26: after any sequence of calls of find_filter_options,
\* find_relate_filter_options and the generators on one scene, every object
\* id stored under a key of the cached index denotes an object of the scene
\* whose attributes match the key.
C26_IndexConsistent == pc = "calls" => IndexConsistent(scene_struct)

\* C26 for the two lookups: a call of a lookup on a scene whose index is
\* consistent or not built yet leaves the index consistent and the object
\* list as it was
C26_LookupsKeep ==
    [][pc = "calls" /\ call_args'.fn # "get_questions_and_answers"
          /\ IndexConsistent(scene_struct)
         => /\ IndexConsistent(scene_struct')
            /\ scene_struct'.has_filter_options
            /\ scene_struct'.objects = scene_struct.objects]_vars

\* a generator was called after the index was built, and the id stored for
\* a colour denotes an object of another colour
C26_Witness ==
    /\ pc = "calls"
    /\ scene_struct.has_filter_options
    /\ Len(scene_struct.objects) = 2
    /\ At(scene_struct.objects, 0).color = "gray"
    /\ <<None, "red", None, None>> \in DOMAIN scene_struct.filter_options
    /\ 0 \in scene_struct.filter_options[<<None, "red", None, None>>]

=============================================================================
